---- MODULE Spec2Model ----
(***************************************************************************)
(* A model of go-recur: the synchronous retry engine (execute, reached     *)
(* through Do(...).RunContext) and the attempt surface (Iter()...Seq()).   *)
(* Durations are in milliseconds.  A context is done when the caller has   *)
(* cancelled it or when the deadline derived from the timeout has passed.  *)
(***************************************************************************)
EXTENDS Integers, Sequences, FiniteSets, TLC

(* ---------------------------- bounds ----------------------------------- *)
MaxN == 3          \* largest maxAttempts tried
MaxHooks == 2      \* largest number of registered hooks
MaxTimeout == 2    \* largest timeout tried (ms)

(* ---------------------------- errors ----------------------------------- *)
Nil == "nil"
Errs == {"E1", "E2"}
Outcomes == {Nil} \cup Errs

\* errors.Is(err, target) for sentinel errors without an Unwrap chain.
ErrorsIs(err, target) == err = target

MatchAny(err) == err # Nil

MatchNone(err) == FALSE

MatchErrors(targets, err) == \E target \in targets : ErrorsIs(err, target)

\* MatchFunc(fn): fn is given by the set of errors it returns true for.
MatchFunc(accepted) == [kind |-> "MatchFunc", targets |-> accepted]

\* Not(matcher), And(matchers...), Or(matchers...)
Not(matcher) == [kind |-> "Not", targets |-> {}, args |-> <<matcher>>]
And(matchers) == [kind |-> "And", targets |-> {}, args |-> matchers]
Or(matchers) == [kind |-> "Or", targets |-> {}, args |-> matchers]

RECURSIVE Matches(_, _), AndLoop(_, _), OrLoop(_, _)

AndLoopFirstOnly(matchers, err) ==
    IF matchers = <<>> THEN TRUE ELSE Matches(Head(matchers), err)

\* for _, matcher := range matchers { if !matcher(err) { return false } }; return true
AndLoop(matchers, err) ==
    IF matchers = <<>> THEN TRUE
    ELSE IF ~Matches(Head(matchers), err) THEN FALSE
    ELSE AndLoop(Tail(matchers), err)

\* for _, matcher := range matchers { if matcher(err) { return true } }; return false
OrLoop(matchers, err) ==
    IF matchers = <<>> THEN FALSE
    ELSE IF Matches(Head(matchers), err) THEN TRUE
    ELSE OrLoop(Tail(matchers), err)

\* An ErrorMatcher value applied to an error.
Matches(m, err) ==
    CASE m.kind = "MatchAny" -> MatchAny(err)
      [] m.kind = "MatchNone" -> MatchNone(err)
      [] m.kind = "MatchErrors" -> MatchErrors(m.targets, err)
      [] m.kind = "MatchFunc" -> err \in m.targets
      [] m.kind = "Not" -> ~Matches(m.args[1], err)
      [] m.kind = "And" -> AndLoop(m.args, err)
      [] m.kind = "Or" -> OrLoop(m.args, err)

\* And's loop run from child i on, with every child called whatever the earlier
\* ones returned.
RECURSIVE AndCallsAll(_, _, _)
AndCallsAll(matchers, err, i) ==
    IF i > Len(matchers) THEN [ret |-> TRUE, called |-> <<>>]
    ELSE LET rest == AndCallsAll(matchers, err, i + 1)
         IN  [ret |-> Matches(matchers[i], err) /\ rest.ret, called |-> <<i>> \o rest.called]

\* The loop of And(matchers...)(err) from child i on: what it returns and the
\* children it calls, in order.
RECURSIVE AndCalls(_, _, _)
AndCalls(matchers, err, i) ==
    IF i > Len(matchers) THEN [ret |-> TRUE, called |-> <<>>]
    ELSE IF ~Matches(matchers[i], err) THEN [ret |-> FALSE, called |-> <<i>>]
    ELSE LET rest == AndCalls(matchers, err, i + 1)
         IN  [ret |-> rest.ret, called |-> <<i>> \o rest.called]

\* The loop of Or(matchers...)(err) from child i on: what it returns and the
\* children it calls, in order.
RECURSIVE OrCalls(_, _, _)
OrCalls(matchers, err, i) ==
    IF i > Len(matchers) THEN [ret |-> FALSE, called |-> <<>>]
    ELSE IF Matches(matchers[i], err) THEN [ret |-> TRUE, called |-> <<i>>]
    ELSE LET rest == OrCalls(matchers, err, i + 1)
         IN  [ret |-> rest.ret, called |-> <<i>> \o rest.called]

Matchers ==
    { [kind |-> "MatchAny", targets |-> {}],
      [kind |-> "MatchNone", targets |-> {}],
      [kind |-> "MatchErrors", targets |-> {"E1"}] }

(* ---------------------------- backoff ---------------------------------- *)
DefaultMaxDelay == 1800000     \* 30 * time.Minute
DefaultFactor == 2
DefaultDelay == 100            \* Constant(100 * time.Millisecond)
DefaultMaxAttempts == 3

Constant(delay) ==
    [kind |-> "Constant", initial |-> delay, increment |-> 0, max |-> 0, factor |-> 0]

Exponential(initial) ==
    [kind |-> "Exponential", initial |-> initial, increment |-> 0,
     max |-> DefaultMaxDelay, factor |-> DefaultFactor]

Fibonacci(initial) ==
    [kind |-> "Fibonacci", initial |-> initial, increment |-> 0,
     max |-> DefaultMaxDelay, factor |-> 0]

Linear(initial, increment) ==
    [kind |-> "Linear", initial |-> initial, increment |-> increment,
     max |-> DefaultMaxDelay, factor |-> 0]

NoDelay == [kind |-> "NoDelay", initial |-> 0, increment |-> 0, max |-> 0, factor |-> 0]

RECURSIVE Pow(_, _)
Pow(x, n) == IF n <= 0 THEN 1 ELSE x * Pow(x, n - 1)

RECURSIVE FibLoop(_, _, _, _)
FibLoop(a, b, i, n) == IF i > n THEN b ELSE FibLoop(b, a + b, i + 1, n)

fibonacci(n) == IF n <= 1 THEN 1 ELSE FibLoop(1, 1, 2, n)

ConstantNext(b, attempt) == b.initial

ExponentialNext(b, attempt) ==
    LET delay == b.initial * Pow(b.factor, attempt)
    IN  IF delay > b.max THEN b.max ELSE delay

FibonacciNext(b, attempt) ==
    LET delay == fibonacci(attempt + 1) * b.initial
    IN  IF delay > b.max THEN b.max ELSE delay

LinearNext(b, attempt) ==
    LET delay == b.initial + b.increment * attempt
    IN  IF delay > b.max THEN b.max ELSE delay

NoBackoffNext(b, attempt) == 0

\* Backoff.Next, dispatched on the dynamic type.
BackoffNext(b, attempt) ==
    CASE b.kind = "Constant" -> ConstantNext(b, attempt)
      [] b.kind = "Exponential" -> ExponentialNext(b, attempt)
      [] b.kind = "Fibonacci" -> FibonacciNext(b, attempt)
      [] b.kind = "Linear" -> LinearNext(b, attempt)
      [] b.kind = "NoDelay" -> NoBackoffNext(b, attempt)

Backoffs == {NoDelay, Constant(1), Exponential(1), Fibonacci(1), Linear(1, 1)}

(* ---------------------------- 64-bit arithmetic ------------------------ *)
\* A machine integer is the sequence of its bytes, least significant first, in
\* two's complement.  time.Duration and int are 8 bytes long; the float64
\* products of ExponentialBackoff.Next are kept exact in 16 bytes.

\* The function f on 1 .. n as the sequence of its n values.
AsSeq(f) == f \o <<>>

\* The natural number n < 2^31 in len bytes
Bytes(n, len) ==
    AsSeq([i \in 1 .. len |-> IF i <= 4 THEN (n \div 256^(i - 1)) % 256 ELSE 0])

\* int64(n) and time.Duration(n) for 0 <= n < 2^31
Int64(n) == Bytes(n, 8)

\* The unsigned integer x in len bytes: zero-extended, or cut to its low bytes.
Resize(x, len) == AsSeq([i \in 1 .. len |-> IF i <= Len(x) THEN x[i] ELSE 0])

\* The addition of x and y carries into byte i: some lower byte overflows and
\* every byte between it and i passes the carry on.
CarryInto(x, y, i) ==
    \E j \in 1 .. i - 1 :
        /\ x[j] + y[j] >= 256
        /\ \A k \in j + 1 .. i - 1 : x[k] + y[k] = 255

\* x + y of two integers of the same width; the carry out of the top byte is lost.
WrapAdd(x, y) ==
    AsSeq([i \in 1 .. Len(x) |->
              (x[i] + y[i] + IF CarryInto(x, y, i) THEN 1 ELSE 0) % 256])

\* The sum of the byte products x[i] * y[k + 1 - i] for i <= n: what the
\* product holds in its 256^(k-1) place before carries, when n = k.
RECURSIVE Column(_, _, _, _)
Column(x, y, k, n) == IF n = 0 THEN 0 ELSE x[n] * y[k + 1 - n] + Column(x, y, k, n - 1)

\* What the places below k carry into place k.
RECURSIVE MulCarry(_, _, _)
MulCarry(x, y, k) ==
    IF k = 1 THEN 0 ELSE (Column(x, y, k - 1, k - 1) + MulCarry(x, y, k - 1)) \div 256

\* x * y of two integers of the same width, modulo 256^width.
WrapMul(x, y) ==
    AsSeq([k \in 1 .. Len(x) |-> (Column(x, y, k, k) + MulCarry(x, y, k)) % 256])

\* The sign bit is set.
Negative(x) == x[Len(x)] >= 128

\* x < y for unsigned integers of the same width: the top byte that differs decides
UnsignedLess(x, y) ==
    \E i \in 1 .. Len(x) :
        /\ x[i] < y[i]
        /\ \A k \in i + 1 .. Len(x) : x[k] = y[k]

\* x < y for signed integers of the same width
Less(x, y) == IF Negative(x) # Negative(y) THEN Negative(x) ELSE UnsignedLess(x, y)

\* d * time.Millisecond: the model's durations are in ms, time.Duration counts ns.
Millisecond == 1000000
Ms(d) == WrapMul(Int64(d), Int64(Millisecond))

\* b.WithMaxDelay(max)
WithMaxDelay(b, max) == [b EXCEPT !.max = max]

\* func (b *ConstantBackoff) Next(attempt int) time.Duration, on machine integers
ConstantNext64(b, attempt) == Ms(b.initial)

\* math.Pow(factor, n) for an integral factor, exact while below 2^128; the
\* square root of the even part is evaluated once
RECURSIVE Pow128(_, _)
Pow128(factor, n) ==
    IF n <= 0 THEN Bytes(1, 16)
    ELSE CHOOSE out \in {IF n % 2 = 0 THEN WrapMul(half, half)
                         ELSE WrapMul(WrapMul(half, half), Bytes(factor, 16)) :
                            half \in {Pow128(factor, n \div 2)}} : TRUE

ExponentialNext64PowOfPrevious(b, attempt) ==
    LET delay == WrapMul(Resize(Ms(b.initial), 16), Pow128(b.factor, attempt - 1))
    IN  IF UnsignedLess(Resize(Ms(b.max), 16), delay) THEN Ms(b.max)
        ELSE Resize(delay, 8)

\* func (b *ExponentialBackoff) Next(attempt int) time.Duration: the product is a
\* float64, which holds initial * factor^attempt exactly for the integral factors
\* and the attempts tried, and is converted back only when it is at most max.
ExponentialNext64(b, attempt) ==
    LET delay == WrapMul(Resize(Ms(b.initial), 16), Pow128(b.factor, attempt))
    IN  IF UnsignedLess(Resize(Ms(b.max), 16), delay) THEN Ms(b.max)
        ELSE Resize(delay, 8)

\* a, b = b, a+b
FibStep64(ab) == <<ab[2], WrapAdd(ab[1], ab[2])>>

\* k rounds of the loop of fibonacci, split in halves; the first half is
\* evaluated before the second starts
RECURSIVE FibLoop64(_, _)
FibLoop64(ab, k) ==
    IF k <= 0 THEN ab
    ELSE IF k = 1 THEN FibStep64(ab)
    ELSE CHOOSE out \in {FibLoop64(half, k - k \div 2) :
                            half \in {FibLoop64(ab, k \div 2)}} : TRUE

\* func fibonacci(n int) int, on 64-bit ints: the loop runs for i = 2 .. n
fibonacci64(n) == IF n <= 1 THEN Int64(1) ELSE FibLoop64(<<Int64(1), Int64(1)>>, n - 1)[2]

FibonacciNext64OfAttempt(b, attempt) ==
    LET delay == WrapMul(fibonacci64(attempt), Ms(b.initial))
    IN  IF Less(Ms(b.max), delay) THEN Ms(b.max) ELSE delay

\* func (b *FibonacciBackoff) Next(attempt int) time.Duration, on machine integers
FibonacciNext64(b, attempt) ==
    LET delay == WrapMul(fibonacci64(attempt + 1), Ms(b.initial))
    IN  IF Less(Ms(b.max), delay) THEN Ms(b.max) ELSE delay

\* func (b *LinearBackoff) Next(attempt int) time.Duration, on machine integers
LinearNext64(b, attempt) ==
    LET delay == WrapAdd(Ms(b.initial), WrapMul(Ms(b.increment), Int64(attempt)))
    IN  IF Less(Ms(b.max), delay) THEN Ms(b.max) ELSE delay

\* func (b *NoBackoff) Next(attempt int) time.Duration, on machine integers
NoBackoffNext64(b, attempt) == Int64(0)

\* Backoff.Next on machine integers, dispatched on the dynamic type.
BackoffNext64(b, attempt) ==
    CASE b.kind = "Constant" -> ConstantNext64(b, attempt)
      [] b.kind = "Exponential" -> ExponentialNext64(b, attempt)
      [] b.kind = "Fibonacci" -> FibonacciNext64(b, attempt)
      [] b.kind = "Linear" -> LinearNext64(b, attempt)
      [] b.kind = "NoDelay" -> NoBackoffNext64(b, attempt)

(* ---------------------------- policies --------------------------------- *)
DefaultConfig ==
    [maxAttempts |-> DefaultMaxAttempts, backoff |-> Constant(DefaultDelay),
     matcher |-> [kind |-> "MatchAny", targets |-> {}], timeout |-> 0]

\* A Policy is a record naming the field it sets and the value.
MaxAttempts(max) == [field |-> "maxAttempts", value |-> max]
Timeout(d) == [field |-> "timeout", value |-> d]
WithBackoff(b) == [field |-> "backoff", value |-> b]
OnlyRetryIf(m) == [field |-> "matcher", value |-> m]

\* CombinePolicies(policies...): a Policy that applies the given ones in turn.
CombinePolicies(policies) == [field |-> "combine", value |-> policies]

RECURSIVE apply(_, _), ApplyAll(_, _)

\* Policy.apply: the policy's function runs on the configuration.
apply(p, cfg) ==
    IF p.field = "combine" THEN ApplyAll(p.value, cfg)
    ELSE [cfg EXCEPT ![p.field] = p.value]

ApplyAllFirstOnly(policies, cfg) ==
    IF policies = <<>> THEN cfg ELSE apply(Head(policies), cfg)

\* for _, policy := range policies { policy.apply(config) }
ApplyAll(policies, cfg) ==
    IF policies = <<>> THEN cfg
    ELSE ApplyAll(Tail(policies), apply(Head(policies), cfg))

\* The policies SimpleRetrier.RunContext hands to execute.
RunContextPolicies(r) ==
    <<MaxAttempts(r.maxAttempts), WithBackoff(r.backoff), OnlyRetryIf(r.matcher)>>
    \o (IF r.timeout > 0 THEN <<Timeout(r.timeout)>> ELSE <<>>)

\* The SimpleRetrier values tried: Do(op) followed by the fluent setters.
Retriers ==
    [maxAttempts : -1 .. MaxN, backoff : Backoffs, matcher : Matchers,
     timeout : 0 .. MaxTimeout, hooks : 0 .. MaxHooks]

\* The IteratorBuilder values tried: Iter() followed by the fluent setters.
Builders ==
    [maxAttempts : -1 .. MaxN, backoff : Backoffs, matcher : Matchers,
     timeout : 0 .. MaxTimeout, hasMetrics : BOOLEAN]

\* Iter(): the builder's defaults, without a collector.
Iter ==
    [maxAttempts |-> DefaultMaxAttempts, backoff |-> Constant(DefaultDelay),
     matcher |-> [kind |-> "MatchAny", targets |-> {}], timeout |-> 0,
     hasMetrics |-> FALSE]

(* ---------------------------- state ------------------------------------ *)
VARIABLES
    config,            \* execute: the resolved executionConfig
    nHooks,            \* execute: len(hooks)
    hi,                \* execute: index of the next hook to call
    result,            \* execute: the returned error
    b,                 \* Seq: the IteratorBuilder
    att,               \* Seq: the Attempt being prepared
    lastAttempt,       \* Seq: the Attempt last handed to the caller
    operationStarted,  \* Seq: operationStarted
    metrics,           \* Seq: the collector's four counters
    cancelled,         \* the caller's context has been cancelled
    deadline,          \* the instant the derived context times out, 0 for none
    now,               \* time since the run started (ms)
    pc,                \* where the run is
    attempt,           \* the loop variable
    lastErr,           \* lastErr
    timerAt,           \* the instant the pending time.After fires
    events,            \* what the run did so far, in order
    query,             \* the last Attempt.ShouldRetry call and what it returned
    runs,              \* the concurrent Seq runs that share one collector
    shared,            \* the MetricsCollector those runs share
    b0,                \* the IteratorBuilder as it was when Seq was called
    calc               \* a call of a pure function: its arguments and its result

engineVars == <<config, nHooks, hi, result>>
iterVars == <<b, att, lastAttempt, operationStarted, metrics>>
otherVars == <<query, runs, shared, b0, calc>>
vars ==
    <<config, nHooks, hi, result, b, att, lastAttempt, operationStarted, metrics,
      cancelled, deadline, now, pc, attempt, lastErr, timerAt, events, query, runs, shared,
      b0, calc>>

NoResult == [kind |-> "none", err |-> Nil, attempts |-> 0]
ReturnNil == [kind |-> "nil", err |-> Nil, attempts |-> 0]
ReturnErr(err) == [kind |-> "err", err |-> err, attempts |-> 0]
MaxAttemptsExceededError(attempts, err) == [kind |-> "MAEE", err |-> err, attempts |-> attempts]

\* MaxAttemptsExceededError.Unwrap
Unwrap(e) == e.err

\* A nil *Attempt.
NoAttempt ==
    [Number |-> 0, LastErr |-> Nil, Delay |-> 0, maxRetry |-> 0,
     matcher |-> [kind |-> "MatchNone", targets |-> {}], result |-> Nil,
     resultSet |-> FALSE]

\* &Attempt{Number: ..., LastErr: ..., Delay: ..., matcher: ..., maxRetry: ...}
Attempt(number, err, delay, matcher, maxRetry) ==
    [Number |-> number, LastErr |-> err, Delay |-> delay, maxRetry |-> maxRetry,
     matcher |-> matcher, result |-> Nil, resultSet |-> FALSE]

\* NewMetricsCollector
NewMetricsCollector ==
    [TotalAttempts |-> 0, SuccessCount |-> 0, FailureCount |-> 0, TotalRetries |-> 0]

\* No ShouldRetry call was made yet.
NoQuery == [a |-> NoAttempt, err |-> Nil, ret |-> FALSE, asked |-> FALSE]

\* No concurrent runs.
NoRuns == <<>>

\* No pure function is under evaluation.
NoCalc == [fn |-> "none"]

Event(type, n, idx, err, delay, by, ctxDone) ==
    [type |-> type, attempt |-> n, idx |-> idx, err |-> err, delay |-> delay,
     by |-> by, ctxDone |-> ctxDone, at |-> now]

\* The deadline of context.WithTimeout(ctx, timeout), derived at time 0 when
\* timeout > 0; 0 when the context is used as it is.
WithTimeout(timeout) == IF timeout > 0 THEN timeout ELSE 0

\* <-ctx.Done() is ready.
CtxDone == cancelled \/ (deadline > 0 /\ now >= deadline)

Init ==
    /\ \E r \in Retriers :
          LET cfg == ApplyAll(RunContextPolicies(r), DefaultConfig)
          IN  /\ config = cfg
              /\ nHooks = r.hooks
              /\ deadline = WithTimeout(cfg.timeout)
    /\ cancelled \in BOOLEAN
    /\ now = 0
    /\ pc = "loop"
    /\ attempt = 1
    /\ lastErr = Nil
    /\ hi = 1
    /\ timerAt = 0
    /\ result = NoResult
    /\ events = <<>>
    /\ b = Iter
    /\ att = NoAttempt
    /\ lastAttempt = NoAttempt
    /\ operationStarted = FALSE
    /\ metrics = NewMetricsCollector
    /\ query = NoQuery
    /\ runs = NoRuns
    /\ shared = NewMetricsCollector
    /\ b0 = b
    /\ calc = NoCalc

(* ---------------------------- execute ---------------------------------- *)
\* LoopHead with the loop bound off by one.
LoopHeadOffByOne ==
    /\ pc = "loop"
    /\ IF attempt < config.maxAttempts
       THEN IF CtxDone
            THEN /\ result' = MaxAttemptsExceededError(attempt - 1, lastErr)
                 /\ pc' = "done"
                 /\ hi' = hi
                 /\ events' = events
            ELSE /\ pc' = "hooks"
                 /\ hi' = 1
                 /\ result' = result
                 /\ events' = Append(events, Event("start", attempt, 0, lastErr, 0, "", FALSE))
       ELSE /\ result' = MaxAttemptsExceededError(config.maxAttempts, lastErr)
            /\ pc' = "done"
            /\ hi' = hi
            /\ events' = events
    /\ UNCHANGED <<config, nHooks, cancelled, deadline, now, attempt, lastErr, timerAt>>
    /\ UNCHANGED iterVars
    /\ UNCHANGED otherVars

\* LoopHead calling the hooks on retries only.
LoopHeadHooksOnRetry ==
    /\ pc = "loop"
    /\ IF attempt <= config.maxAttempts
       THEN IF CtxDone
            THEN /\ result' = MaxAttemptsExceededError(attempt - 1, lastErr)
                 /\ pc' = "done"
                 /\ hi' = hi
                 /\ events' = events
            ELSE /\ pc' = "hooks"
                 /\ hi' = IF attempt = 1 THEN nHooks + 1 ELSE 1
                 /\ result' = result
                 /\ events' = Append(events, Event("start", attempt, 0, lastErr, 0, "", FALSE))
       ELSE /\ result' = MaxAttemptsExceededError(config.maxAttempts, lastErr)
            /\ pc' = "done"
            /\ hi' = hi
            /\ events' = events
    /\ UNCHANGED <<config, nHooks, cancelled, deadline, now, attempt, lastErr, timerAt>>
    /\ UNCHANGED iterVars
    /\ UNCHANGED otherVars

\* LoopHead without the cancellation check.
LoopHeadNoCtxCheck ==
    /\ pc = "loop"
    /\ IF attempt <= config.maxAttempts
       THEN IF FALSE
            THEN /\ result' = MaxAttemptsExceededError(attempt - 1, lastErr)
                 /\ pc' = "done"
                 /\ hi' = hi
                 /\ events' = events
            ELSE /\ pc' = "hooks"
                 /\ hi' = 1
                 /\ result' = result
                 /\ events' = Append(events, Event("start", attempt, 0, lastErr, 0, "", FALSE))
       ELSE /\ result' = MaxAttemptsExceededError(config.maxAttempts, lastErr)
            /\ pc' = "done"
            /\ hi' = hi
            /\ events' = events
    /\ UNCHANGED <<config, nHooks, cancelled, deadline, now, attempt, lastErr, timerAt>>
    /\ UNCHANGED iterVars
    /\ UNCHANGED otherVars

\* LoopHead reporting the attempt it was about to start.
LoopHeadReportsAttempt ==
    /\ pc = "loop"
    /\ IF attempt <= config.maxAttempts
       THEN IF CtxDone
            THEN /\ result' = MaxAttemptsExceededError(attempt, lastErr)
                 /\ pc' = "done"
                 /\ hi' = hi
                 /\ events' = events
            ELSE /\ pc' = "hooks"
                 /\ hi' = 1
                 /\ result' = result
                 /\ events' = Append(events, Event("start", attempt, 0, lastErr, 0, "", FALSE))
       ELSE /\ result' = MaxAttemptsExceededError(config.maxAttempts, lastErr)
            /\ pc' = "done"
            /\ hi' = hi
            /\ events' = events
    /\ UNCHANGED <<config, nHooks, cancelled, deadline, now, attempt, lastErr, timerAt>>
    /\ UNCHANGED iterVars
    /\ UNCHANGED otherVars

\* LoopHead deriving a fresh deadline for every attempt.
LoopHeadRestartsDeadline ==
    /\ pc = "loop"
    /\ IF attempt <= config.maxAttempts
       THEN IF CtxDone
            THEN /\ result' = MaxAttemptsExceededError(attempt - 1, lastErr)
                 /\ pc' = "done"
                 /\ hi' = hi
                 /\ events' = events
            ELSE /\ pc' = "hooks"
                 /\ hi' = 1
                 /\ result' = result
                 /\ events' = Append(events, Event("start", attempt, 0, lastErr, 0, "", FALSE))
       ELSE /\ result' = MaxAttemptsExceededError(config.maxAttempts, lastErr)
            /\ pc' = "done"
            /\ hi' = hi
            /\ events' = events
    /\ deadline' = IF config.timeout > 0 /\ attempt <= config.maxAttempts /\ ~CtxDone
                   THEN now + config.timeout ELSE deadline
    /\ UNCHANGED <<config, nHooks, cancelled, now, attempt, lastErr, timerAt>>
    /\ UNCHANGED iterVars
    /\ UNCHANGED otherVars

\* LoopHead whose error after the loop carries the number of invocations made.
LoopHeadReportsInvocations ==
    /\ pc = "loop"
    /\ IF attempt <= config.maxAttempts
       THEN IF CtxDone
            THEN /\ result' = MaxAttemptsExceededError(attempt - 1, lastErr)
                 /\ pc' = "done"
                 /\ hi' = hi
                 /\ events' = events
            ELSE /\ pc' = "hooks"
                 /\ hi' = 1
                 /\ result' = result
                 /\ events' = Append(events, Event("start", attempt, 0, lastErr, 0, "", FALSE))
       ELSE /\ result' = MaxAttemptsExceededError(attempt - 1, lastErr)
            /\ pc' = "done"
            /\ hi' = hi
            /\ events' = events
    /\ UNCHANGED <<config, nHooks, cancelled, deadline, now, attempt, lastErr, timerAt>>
    /\ UNCHANGED iterVars
    /\ UNCHANGED otherVars

\* for attempt <= maxAttempts { select { case <-execCtx.Done(): return ... default: } ... }
\* and the return after the loop.
LoopHead ==
    /\ pc = "loop"
    /\ IF attempt <= config.maxAttempts
       THEN IF CtxDone
            THEN /\ result' = MaxAttemptsExceededError(attempt - 1, lastErr)
                 /\ pc' = "done"
                 /\ hi' = hi
                 /\ events' = events
            ELSE /\ pc' = "hooks"
                 /\ hi' = 1
                 /\ result' = result
                 /\ events' = Append(events, Event("start", attempt, 0, lastErr, 0, "", FALSE))
       ELSE /\ result' = MaxAttemptsExceededError(config.maxAttempts, lastErr)
            /\ pc' = "done"
            /\ hi' = hi
            /\ events' = events
    /\ UNCHANGED <<config, nHooks, cancelled, deadline, now, attempt, lastErr, timerAt>>
    /\ UNCHANGED iterVars
    /\ UNCHANGED otherVars

\* for _, hook := range hooks { hook(execCtx, attempt, lastErr, elapsed) }
CallHook ==
    /\ pc = "hooks"
    /\ hi <= nHooks
    /\ events' = Append(events, Event("hook", attempt, hi, lastErr, 0, "", FALSE))
    /\ hi' = hi + 1
    /\ UNCHANGED <<config, nHooks, result, cancelled, deadline, now, pc, attempt, lastErr, timerAt>>
    /\ UNCHANGED iterVars
    /\ UNCHANGED otherVars

\* CallOperation asking the backoff for the delay of the attempt to come.
CallOperationDelayOfNext ==
    /\ pc = "hooks"
    /\ hi > nHooks
    /\ \E err \in Outcomes :
          /\ events' = Append(events, Event("op", attempt, 0, err, 0, "", FALSE))
          /\ IF err = Nil
             THEN /\ result' = ReturnNil
                  /\ pc' = "done"
                  /\ UNCHANGED <<lastErr, timerAt>>
             ELSE /\ lastErr' = err
                  /\ IF ~Matches(config.matcher, err)
                     THEN /\ result' = ReturnErr(err)
                          /\ pc' = "done"
                          /\ timerAt' = timerAt
                     ELSE IF attempt >= config.maxAttempts
                          THEN /\ result' = MaxAttemptsExceededError(config.maxAttempts, err)
                               /\ pc' = "done"
                               /\ timerAt' = timerAt
                          ELSE /\ timerAt' = now + BackoffNext(config.backoff, attempt + 1)
                               /\ pc' = "wait"
                               /\ result' = result
    /\ UNCHANGED <<config, nHooks, hi, cancelled, deadline, now, attempt>>
    /\ UNCHANGED iterVars
    /\ UNCHANGED otherVars

\* CallOperation going on to the backoff after a success.
CallOperationRetriesSuccess ==
    /\ pc = "hooks"
    /\ hi > nHooks
    /\ \E err \in Outcomes :
          /\ events' = Append(events, Event("op", attempt, 0, err, 0, "", FALSE))
          /\ IF err = Nil
             THEN /\ IF attempt >= config.maxAttempts
                     THEN result' = ReturnNil /\ pc' = "done" /\ timerAt' = timerAt
                     ELSE /\ timerAt' = now + BackoffNext(config.backoff, attempt)
                          /\ pc' = "wait"
                          /\ result' = result
                  /\ UNCHANGED lastErr
             ELSE /\ lastErr' = err
                  /\ IF ~Matches(config.matcher, err)
                     THEN /\ result' = ReturnErr(err)
                          /\ pc' = "done"
                          /\ timerAt' = timerAt
                     ELSE IF attempt >= config.maxAttempts
                          THEN /\ result' = MaxAttemptsExceededError(config.maxAttempts, err)
                               /\ pc' = "done"
                               /\ timerAt' = timerAt
                          ELSE /\ timerAt' = now + BackoffNext(config.backoff, attempt)
                               /\ pc' = "wait"
                               /\ result' = result
    /\ UNCHANGED <<config, nHooks, hi, cancelled, deadline, now, attempt>>
    /\ UNCHANGED iterVars
    /\ UNCHANGED otherVars

\* CallOperation testing the attempt limit before the matcher.
CallOperationLimitFirst ==
    /\ pc = "hooks"
    /\ hi > nHooks
    /\ \E err \in Outcomes :
          /\ events' = Append(events, Event("op", attempt, 0, err, 0, "", FALSE))
          /\ IF err = Nil
             THEN /\ result' = ReturnNil
                  /\ pc' = "done"
                  /\ UNCHANGED <<lastErr, timerAt>>
             ELSE /\ lastErr' = err
                  /\ IF attempt >= config.maxAttempts
                     THEN /\ result' = MaxAttemptsExceededError(config.maxAttempts, err)
                          /\ pc' = "done"
                          /\ timerAt' = timerAt
                     ELSE IF ~Matches(config.matcher, err)
                          THEN /\ result' = ReturnErr(err)
                               /\ pc' = "done"
                               /\ timerAt' = timerAt
                          ELSE /\ timerAt' = now + BackoffNext(config.backoff, attempt)
                               /\ pc' = "wait"
                               /\ result' = result
    /\ UNCHANGED <<config, nHooks, hi, cancelled, deadline, now, attempt>>
    /\ UNCHANGED iterVars
    /\ UNCHANGED otherVars

\* CallOperation without lastErr = err.
CallOperationDropsLastErr ==
    /\ pc = "hooks"
    /\ hi > nHooks
    /\ \E err \in Outcomes :
          /\ events' = Append(events, Event("op", attempt, 0, err, 0, "", FALSE))
          /\ IF err = Nil
             THEN /\ result' = ReturnNil
                  /\ pc' = "done"
                  /\ UNCHANGED <<lastErr, timerAt>>
             ELSE /\ lastErr' = lastErr
                  /\ IF ~Matches(config.matcher, err)
                     THEN /\ result' = ReturnErr(err)
                          /\ pc' = "done"
                          /\ timerAt' = timerAt
                     ELSE IF attempt >= config.maxAttempts
                          THEN /\ result' = MaxAttemptsExceededError(config.maxAttempts, lastErr)
                               /\ pc' = "done"
                               /\ timerAt' = timerAt
                          ELSE /\ timerAt' = now + BackoffNext(config.backoff, attempt)
                               /\ pc' = "wait"
                               /\ result' = result
    /\ UNCHANGED <<config, nHooks, hi, cancelled, deadline, now, attempt>>
    /\ UNCHANGED iterVars
    /\ UNCHANGED otherVars

\* err := operation() and everything up to the backoff select.
CallOperation ==
    /\ pc = "hooks"
    /\ hi > nHooks
    /\ \E err \in Outcomes :
          /\ events' = Append(events, Event("op", attempt, 0, err, 0, "", FALSE))
          /\ IF err = Nil
             THEN /\ result' = ReturnNil
                  /\ pc' = "done"
                  /\ UNCHANGED <<lastErr, timerAt>>
             ELSE /\ lastErr' = err
                  /\ IF ~Matches(config.matcher, err)
                     THEN /\ result' = ReturnErr(err)
                          /\ pc' = "done"
                          /\ timerAt' = timerAt
                     ELSE IF attempt >= config.maxAttempts
                          THEN /\ result' = MaxAttemptsExceededError(config.maxAttempts, err)
                               /\ pc' = "done"
                               /\ timerAt' = timerAt
                          ELSE /\ timerAt' = now + BackoffNext(config.backoff, attempt)
                               /\ pc' = "wait"
                               /\ result' = result
    /\ UNCHANGED <<config, nHooks, hi, cancelled, deadline, now, attempt>>
    /\ UNCHANGED iterVars
    /\ UNCHANGED otherVars

\* Wait that selects on the context alone.
WaitOnlyForContext ==
    /\ pc = "wait"
    /\ CtxDone
    /\ events' = Append(events,
           Event("wait", attempt, 0, lastErr, timerAt - events[Len(events)].at, "ctx", TRUE))
    /\ result' = MaxAttemptsExceededError(attempt, lastErr)
    /\ pc' = "done"
    /\ attempt' = attempt
    /\ UNCHANGED <<config, nHooks, hi, cancelled, deadline, now, lastErr, timerAt>>
    /\ UNCHANGED iterVars
    /\ UNCHANGED otherVars

\* Wait that leaves the loop counter as it is.
WaitKeepsAttempt ==
    /\ pc = "wait"
    /\ \/ /\ now >= timerAt
          /\ events' = Append(events,
                 Event("wait", attempt, 0, lastErr, timerAt - events[Len(events)].at, "timer", CtxDone))
          /\ attempt' = attempt
          /\ pc' = "loop"
          /\ result' = result
       \/ /\ CtxDone
          /\ events' = Append(events,
                 Event("wait", attempt, 0, lastErr, timerAt - events[Len(events)].at, "ctx", TRUE))
          /\ result' = MaxAttemptsExceededError(attempt, lastErr)
          /\ pc' = "done"
          /\ attempt' = attempt
    /\ UNCHANGED <<config, nHooks, hi, cancelled, deadline, now, lastErr, timerAt>>
    /\ UNCHANGED iterVars
    /\ UNCHANGED otherVars

\* select { case <-time.After(delay): case <-execCtx.Done(): return ... }
\* When both channels are ready the runtime picks either.
Wait ==
    /\ pc = "wait"
    /\ \/ /\ now >= timerAt
          /\ events' = Append(events,
                 Event("wait", attempt, 0, lastErr, timerAt - events[Len(events)].at, "timer", CtxDone))
          /\ attempt' = attempt + 1
          /\ pc' = "loop"
          /\ result' = result
       \/ /\ CtxDone
          /\ events' = Append(events,
                 Event("wait", attempt, 0, lastErr, timerAt - events[Len(events)].at, "ctx", TRUE))
          /\ result' = MaxAttemptsExceededError(attempt, lastErr)
          /\ pc' = "done"
          /\ attempt' = attempt
    /\ UNCHANGED <<config, nHooks, hi, cancelled, deadline, now, lastErr, timerAt>>
    /\ UNCHANGED iterVars
    /\ UNCHANGED otherVars

(* ---------------------------- Seq -------------------------------------- *)
InitIter ==
    /\ b \in Builders
    /\ cancelled \in BOOLEAN
    /\ now = 0
    /\ deadline = WithTimeout(b.timeout)
    /\ pc = "loop"
    /\ attempt = 1
    /\ lastErr = Nil
    /\ timerAt = 0
    /\ events = <<>>
    /\ att = NoAttempt
    /\ lastAttempt = NoAttempt
    /\ operationStarted = FALSE
    /\ metrics = NewMetricsCollector
    /\ config = DefaultConfig
    /\ nHooks = 0
    /\ hi = 1
    /\ result = NoResult
    /\ query = NoQuery
    /\ runs = NoRuns
    /\ shared = NewMetricsCollector
    /\ b0 = b
    /\ calc = NoCalc

\* b.metrics.TotalAttempts.Add(1); b.metrics.FailureCount.Add(1)
RecordFailure(m) ==
    [m EXCEPT !.TotalAttempts = @ + 1, !.FailureCount = @ + 1]

\* b.metrics.TotalAttempts.Add(1), then SuccessCount or FailureCount on lastErr
RecordFinal(m, err) ==
    IF err = Nil
    THEN [m EXCEPT !.TotalAttempts = @ + 1, !.SuccessCount = @ + 1]
    ELSE [m EXCEPT !.TotalAttempts = @ + 1, !.FailureCount = @ + 1]

\* b.metrics.TotalRetries.Add(1) when metrics are on and attempt > 1
RecordRetry(m) ==
    IF b.hasMetrics /\ attempt > 1 THEN [m EXCEPT !.TotalRetries = @ + 1] ELSE m

RecordStopUnguarded(m) ==
    IF b.hasMetrics THEN RecordFailure(m) ELSE m

\* if b.metrics != nil && operationStarted { TotalAttempts, FailureCount }
RecordStop(m) ==
    IF b.hasMetrics /\ operationStarted THEN RecordFailure(m) ELSE m

\* operationStarted = true; lastAttempt = att; yield(att)
Yield(a) ==
    /\ operationStarted' = TRUE
    /\ lastAttempt' = a
    /\ pc' = "yielded"
    /\ events' = Append(events, Event("yield", a.Number, 0, a.LastErr, a.Delay, "", CtxDone))

\* SeqLoop with the loop bound off by one.
SeqLoopOffByOne ==
    /\ pc = "loop"
    /\ IF attempt < b.maxAttempts
       THEN IF /\ lastAttempt # NoAttempt
               /\ lastAttempt.resultSet
               /\ lastAttempt.result # Nil
               /\ ~Matches(b.matcher, lastAttempt.result)
            THEN /\ metrics' = RecordStop(metrics)
                 /\ pc' = "done"
                 /\ events' = Append(events, Event("end", attempt, 0, Nil, 0, "rejected", FALSE))
                 /\ UNCHANGED <<att, lastAttempt, operationStarted, timerAt>>
            ELSE IF CtxDone
                 THEN /\ metrics' = RecordStop(RecordRetry(metrics))
                      /\ pc' = "done"
                      /\ events' = Append(events, Event("end", attempt, 0, Nil, 0, "ctx", TRUE))
                      /\ UNCHANGED <<att, lastAttempt, operationStarted, timerAt>>
                 ELSE LET delay == IF attempt > 1 THEN BackoffNext(b.backoff, attempt - 1) ELSE 0
                          a == Attempt(attempt, lastErr, delay, b.matcher, b.maxAttempts)
                      IN  /\ metrics' = RecordRetry(metrics)
                          /\ att' = a
                          /\ IF attempt > 1 /\ delay > 0
                             THEN /\ timerAt' = now + delay
                                  /\ pc' = "wait"
                                  /\ events' = Append(events,
                                         Event("arm", attempt, 0, Nil, delay, "", CtxDone))
                                  /\ UNCHANGED <<lastAttempt, operationStarted>>
                             ELSE /\ Yield(a)
                                  /\ timerAt' = timerAt
       ELSE /\ metrics' = IF b.hasMetrics /\ operationStarted
                          THEN RecordFinal(metrics, lastErr) ELSE metrics
            /\ pc' = "done"
            /\ events' = Append(events, Event("end", attempt, 0, Nil, 0, "ceiling", FALSE))
            /\ UNCHANGED <<att, lastAttempt, operationStarted, timerAt>>
    /\ UNCHANGED <<b, cancelled, deadline, now, attempt, lastErr>>
    /\ UNCHANGED engineVars
    /\ UNCHANGED otherVars

\* SeqLoop asking the backoff for the coming attempt's ordinal.
SeqLoopDelayOfAttempt ==
    /\ pc = "loop"
    /\ IF attempt <= b.maxAttempts
       THEN IF /\ lastAttempt # NoAttempt
               /\ lastAttempt.resultSet
               /\ lastAttempt.result # Nil
               /\ ~Matches(b.matcher, lastAttempt.result)
            THEN /\ metrics' = RecordStop(metrics)
                 /\ pc' = "done"
                 /\ events' = Append(events, Event("end", attempt, 0, Nil, 0, "rejected", FALSE))
                 /\ UNCHANGED <<att, lastAttempt, operationStarted, timerAt>>
            ELSE IF CtxDone
                 THEN /\ metrics' = RecordStop(RecordRetry(metrics))
                      /\ pc' = "done"
                      /\ events' = Append(events, Event("end", attempt, 0, Nil, 0, "ctx", TRUE))
                      /\ UNCHANGED <<att, lastAttempt, operationStarted, timerAt>>
                 ELSE LET delay == IF attempt > 1 THEN BackoffNext(b.backoff, attempt) ELSE 0
                          a == Attempt(attempt, lastErr, delay, b.matcher, b.maxAttempts)
                      IN  /\ metrics' = RecordRetry(metrics)
                          /\ att' = a
                          /\ IF attempt > 1 /\ delay > 0
                             THEN /\ timerAt' = now + delay
                                  /\ pc' = "wait"
                                  /\ events' = Append(events,
                                         Event("arm", attempt, 0, Nil, delay, "", CtxDone))
                                  /\ UNCHANGED <<lastAttempt, operationStarted>>
                             ELSE /\ Yield(a)
                                  /\ timerAt' = timerAt
       ELSE /\ metrics' = IF b.hasMetrics /\ operationStarted
                          THEN RecordFinal(metrics, lastErr) ELSE metrics
            /\ pc' = "done"
            /\ events' = Append(events, Event("end", attempt, 0, Nil, 0, "ceiling", FALSE))
            /\ UNCHANGED <<att, lastAttempt, operationStarted, timerAt>>
    /\ UNCHANGED <<b, cancelled, deadline, now, attempt, lastErr>>
    /\ UNCHANGED engineVars
    /\ UNCHANGED otherVars

\* SeqLoop without the select on ctx.Done() at the top of the iteration.
SeqLoopNoCtxCheck ==
    /\ pc = "loop"
    /\ IF attempt <= b.maxAttempts
       THEN IF /\ lastAttempt # NoAttempt
               /\ lastAttempt.resultSet
               /\ lastAttempt.result # Nil
               /\ ~Matches(b.matcher, lastAttempt.result)
            THEN /\ metrics' = RecordStop(metrics)
                 /\ pc' = "done"
                 /\ events' = Append(events, Event("end", attempt, 0, Nil, 0, "rejected", FALSE))
                 /\ UNCHANGED <<att, lastAttempt, operationStarted, timerAt>>
            ELSE IF FALSE
                 THEN /\ metrics' = RecordStop(RecordRetry(metrics))
                      /\ pc' = "done"
                      /\ events' = Append(events, Event("end", attempt, 0, Nil, 0, "ctx", TRUE))
                      /\ UNCHANGED <<att, lastAttempt, operationStarted, timerAt>>
                 ELSE LET delay == IF attempt > 1 THEN BackoffNext(b.backoff, attempt - 1) ELSE 0
                          a == Attempt(attempt, lastErr, delay, b.matcher, b.maxAttempts)
                      IN  /\ metrics' = RecordRetry(metrics)
                          /\ att' = a
                          /\ IF attempt > 1 /\ delay > 0
                             THEN /\ timerAt' = now + delay
                                  /\ pc' = "wait"
                                  /\ events' = Append(events,
                                         Event("arm", attempt, 0, Nil, delay, "", CtxDone))
                                  /\ UNCHANGED <<lastAttempt, operationStarted>>
                             ELSE /\ Yield(a)
                                  /\ timerAt' = timerAt
       ELSE /\ metrics' = IF b.hasMetrics /\ operationStarted
                          THEN RecordFinal(metrics, lastErr) ELSE metrics
            /\ pc' = "done"
            /\ events' = Append(events, Event("end", attempt, 0, Nil, 0, "ceiling", FALSE))
            /\ UNCHANGED <<att, lastAttempt, operationStarted, timerAt>>
    /\ UNCHANGED <<b, cancelled, deadline, now, attempt, lastErr>>
    /\ UNCHANGED engineVars
    /\ UNCHANGED otherVars

\* SeqLoop ending the sequence after a reported success as well.
SeqLoopStopsOnSuccess ==
    /\ pc = "loop"
    /\ IF attempt <= b.maxAttempts
       THEN IF /\ lastAttempt # NoAttempt
               /\ lastAttempt.resultSet
               /\ \/ lastAttempt.result = Nil
                  \/ ~Matches(b.matcher, lastAttempt.result)
            THEN /\ metrics' = RecordStop(metrics)
                 /\ pc' = "done"
                 /\ events' = Append(events, Event("end", attempt, 0, Nil, 0, "rejected", FALSE))
                 /\ UNCHANGED <<att, lastAttempt, operationStarted, timerAt>>
            ELSE IF CtxDone
                 THEN /\ metrics' = RecordStop(RecordRetry(metrics))
                      /\ pc' = "done"
                      /\ events' = Append(events, Event("end", attempt, 0, Nil, 0, "ctx", TRUE))
                      /\ UNCHANGED <<att, lastAttempt, operationStarted, timerAt>>
                 ELSE LET delay == IF attempt > 1 THEN BackoffNext(b.backoff, attempt - 1) ELSE 0
                          a == Attempt(attempt, lastErr, delay, b.matcher, b.maxAttempts)
                      IN  /\ metrics' = RecordRetry(metrics)
                          /\ att' = a
                          /\ IF attempt > 1 /\ delay > 0
                             THEN /\ timerAt' = now + delay
                                  /\ pc' = "wait"
                                  /\ events' = Append(events,
                                         Event("arm", attempt, 0, Nil, delay, "", CtxDone))
                                  /\ UNCHANGED <<lastAttempt, operationStarted>>
                             ELSE /\ Yield(a)
                                  /\ timerAt' = timerAt
       ELSE /\ metrics' = IF b.hasMetrics /\ operationStarted
                          THEN RecordFinal(metrics, lastErr) ELSE metrics
            /\ pc' = "done"
            /\ events' = Append(events, Event("end", attempt, 0, Nil, 0, "ceiling", FALSE))
            /\ UNCHANGED <<att, lastAttempt, operationStarted, timerAt>>
    /\ UNCHANGED <<b, cancelled, deadline, now, attempt, lastErr>>
    /\ UNCHANGED engineVars
    /\ UNCHANGED otherVars

\* One pass of the for loop up to the backoff select or the yield, and the code
\* after the loop.
SeqLoop ==
    /\ pc = "loop"
    /\ IF attempt <= b.maxAttempts
       THEN IF /\ lastAttempt # NoAttempt
               /\ lastAttempt.resultSet
               /\ lastAttempt.result # Nil
               /\ ~Matches(b.matcher, lastAttempt.result)
            THEN /\ metrics' = RecordStop(metrics)
                 /\ pc' = "done"
                 /\ events' = Append(events, Event("end", attempt, 0, Nil, 0, "rejected", FALSE))
                 /\ UNCHANGED <<att, lastAttempt, operationStarted, timerAt>>
            ELSE IF CtxDone
                 THEN /\ metrics' = RecordStop(RecordRetry(metrics))
                      /\ pc' = "done"
                      /\ events' = Append(events, Event("end", attempt, 0, Nil, 0, "ctx", TRUE))
                      /\ UNCHANGED <<att, lastAttempt, operationStarted, timerAt>>
                 ELSE LET delay == IF attempt > 1 THEN BackoffNext(b.backoff, attempt - 1) ELSE 0
                          a == Attempt(attempt, lastErr, delay, b.matcher, b.maxAttempts)
                      IN  /\ metrics' = RecordRetry(metrics)
                          /\ att' = a
                          /\ IF attempt > 1 /\ delay > 0
                             THEN /\ timerAt' = now + delay
                                  /\ pc' = "wait"
                                  /\ events' = Append(events,
                                         Event("arm", attempt, 0, Nil, delay, "", CtxDone))
                                  /\ UNCHANGED <<lastAttempt, operationStarted>>
                             ELSE /\ Yield(a)
                                  /\ timerAt' = timerAt
       ELSE /\ metrics' = IF b.hasMetrics /\ operationStarted
                          THEN RecordFinal(metrics, lastErr) ELSE metrics
            /\ pc' = "done"
            /\ events' = Append(events, Event("end", attempt, 0, Nil, 0, "ceiling", FALSE))
            /\ UNCHANGED <<att, lastAttempt, operationStarted, timerAt>>
    /\ UNCHANGED <<b, cancelled, deadline, now, attempt, lastErr>>
    /\ UNCHANGED engineVars
    /\ UNCHANGED otherVars

\* select { case <-time.After(delay): case <-ctx.Done(): ...; return }, then the yield.
\* When both channels are ready the runtime picks either.
SeqWait ==
    /\ pc = "wait"
    /\ \/ /\ now >= timerAt
          /\ Yield(att)
          /\ metrics' = metrics
       \/ /\ CtxDone
          /\ metrics' = RecordStop(metrics)
          /\ pc' = "done"
          /\ events' = Append(events, Event("end", attempt, 0, Nil, 0, "ctxwait", TRUE))
          /\ UNCHANGED <<lastAttempt, operationStarted>>
    /\ UNCHANGED <<b, att, cancelled, deadline, now, attempt, lastErr, timerAt>>
    /\ UNCHANGED engineVars
    /\ UNCHANGED otherVars

\* The loop body calls attempt.Result(err) on the Attempt it holds.
Result(err) ==
    /\ pc = "yielded"
    /\ lastAttempt' = [lastAttempt EXCEPT !.result = err, !.resultSet = TRUE]
    /\ UNCHANGED <<b, att, operationStarted, metrics, cancelled, deadline, now, pc, attempt,
                   lastErr, timerAt, events>>
    /\ UNCHANGED engineVars
    /\ UNCHANGED otherVars

\* Continue with the loop counter stepping by two.
ContinueSkipsAttempt ==
    /\ pc = "yielded"
    /\ attempt' = attempt + 2
    /\ pc' = "loop"
    /\ events' = Append(events,
           Event("body", attempt, 0, lastAttempt.result, 0,
                 IF lastAttempt.resultSet THEN "reported" ELSE "", FALSE))
    /\ UNCHANGED <<b, att, lastAttempt, operationStarted, metrics, cancelled, deadline, now,
                   lastErr, timerAt>>
    /\ UNCHANGED engineVars
    /\ UNCHANGED otherVars

\* The loop body ends: yield returns true and the for statement increments attempt.
Continue ==
    /\ pc = "yielded"
    /\ attempt' = attempt + 1
    /\ pc' = "loop"
    /\ events' = Append(events,
           Event("body", attempt, 0, lastAttempt.result, 0,
                 IF lastAttempt.resultSet THEN "reported" ELSE "", FALSE))
    /\ UNCHANGED <<b, att, lastAttempt, operationStarted, metrics, cancelled, deadline, now,
                   lastErr, timerAt>>
    /\ UNCHANGED engineVars
    /\ UNCHANGED otherVars

\* Break that classifies the run by what was reported on the Attempt.
BreakClassifiesByResult ==
    /\ pc = "yielded"
    /\ metrics' = IF b.hasMetrics THEN RecordFinal(metrics, lastAttempt.result) ELSE metrics
    /\ pc' = "done"
    /\ events' = Append(events,
           Event("break", attempt, 0, lastAttempt.result, 0,
                 IF lastAttempt.resultSet THEN "reported" ELSE "", FALSE))
    /\ UNCHANGED <<b, att, lastAttempt, operationStarted, cancelled, deadline, now, attempt,
                   lastErr, timerAt>>
    /\ UNCHANGED engineVars
    /\ UNCHANGED otherVars

\* The loop body breaks: yield returns false.
Break ==
    /\ pc = "yielded"
    /\ metrics' = IF b.hasMetrics THEN RecordFinal(metrics, lastErr) ELSE metrics
    /\ pc' = "done"
    /\ events' = Append(events,
           Event("break", attempt, 0, lastAttempt.result, 0,
                 IF lastAttempt.resultSet THEN "reported" ELSE "", FALSE))
    /\ UNCHANGED <<b, att, lastAttempt, operationStarted, cancelled, deadline, now, attempt,
                   lastErr, timerAt>>
    /\ UNCHANGED engineVars
    /\ UNCHANGED otherVars

(* ---------------------------- Attempt.ShouldRetry ----------------------- *)
ShouldRetryOffByOne(a, err) ==
    IF err = Nil THEN FALSE
    ELSE IF a.Number > a.maxRetry THEN FALSE
    ELSE Matches(a.matcher, err)

\* func (a *Attempt) ShouldRetry(err error) bool
ShouldRetry(a, err) ==
    IF err = Nil THEN FALSE
    ELSE IF a.Number >= a.maxRetry THEN FALSE
    ELSE Matches(a.matcher, err)

\* ShouldRetry that also records err as the reported outcome of the Attempt.
ShouldRetryCallReports(err) ==
    /\ pc = "yielded"
    /\ query' = [a |-> lastAttempt, err |-> err, ret |-> ShouldRetry(lastAttempt, err),
                 asked |-> TRUE]
    /\ lastAttempt' = [lastAttempt EXCEPT !.result = err, !.resultSet = TRUE]
    /\ UNCHANGED <<cancelled, deadline, now, pc, attempt, lastErr, timerAt, events>>
    /\ UNCHANGED engineVars
    /\ UNCHANGED <<b, att, operationStarted, metrics>>
    /\ UNCHANGED <<runs, shared, b0, calc>>

\* The loop body asks the Attempt it holds whether err should be retried.
ShouldRetryCall(err) ==
    /\ pc = "yielded"
    /\ query' = [a |-> lastAttempt, err |-> err, ret |-> ShouldRetry(lastAttempt, err),
                 asked |-> TRUE]
    /\ UNCHANGED <<cancelled, deadline, now, pc, attempt, lastErr, timerAt, events>>
    /\ UNCHANGED engineVars
    /\ UNCHANGED iterVars
    /\ UNCHANGED <<runs, shared, b0, calc>>

\* The loop body of a configured surface holds Attempt n, as Seq built it.
InitShouldRetry ==
    /\ b \in {x \in Builders : x.maxAttempts >= 1}
    /\ \E n \in 1 .. b.maxAttempts :
          /\ attempt = n
          /\ att = Attempt(n, Nil, IF n > 1 THEN BackoffNext(b.backoff, n - 1) ELSE 0,
                           b.matcher, b.maxAttempts)
    /\ lastAttempt = att
    /\ operationStarted = TRUE
    /\ pc = "yielded"
    /\ cancelled = FALSE
    /\ now = 0
    /\ deadline = WithTimeout(b.timeout)
    /\ lastErr = Nil
    /\ timerAt = 0
    /\ events = <<>>
    /\ metrics = NewMetricsCollector
    /\ config = DefaultConfig
    /\ nHooks = 0
    /\ hi = 1
    /\ result = NoResult
    /\ query = NoQuery
    /\ runs = NoRuns
    /\ shared = NewMetricsCollector
    /\ b0 = b
    /\ calc = NoCalc

NextShouldRetry == \E err \in Outcomes : ShouldRetryCall(err)

SpecShouldRetry == InitShouldRetry /\ [][NextShouldRetry]_vars

(* ---------------------------- environment ------------------------------ *)
\* A millisecond passes.  Time is tracked only while a timer or a deadline is pending.
Tick ==
    /\ pc # "done"
    /\ \/ (deadline > 0 /\ ~CtxDone)
       \/ (pc = "wait" /\ now < timerAt)
    /\ now' = now + 1
    /\ UNCHANGED <<cancelled, deadline, pc, attempt, lastErr, timerAt, events>>
    /\ UNCHANGED engineVars
    /\ UNCHANGED iterVars
    /\ UNCHANGED otherVars

\* The caller cancels the context it passed in.
Cancel ==
    /\ pc # "done"
    /\ ~cancelled
    /\ cancelled' = TRUE
    /\ UNCHANGED <<deadline, now, pc, attempt, lastErr, timerAt, events>>
    /\ UNCHANGED engineVars
    /\ UNCHANGED iterVars
    /\ UNCHANGED otherVars

Next == LoopHead \/ CallHook \/ CallOperation \/ Wait \/ Tick \/ Cancel

Spec == Init /\ [][Next]_vars

\* What execute's environment is assumed to do: every hook and every operation
\* invocation returns, time passes while a timer or a deadline is pending, and a
\* ready select is taken.  The caller is free never to cancel.
Fairness ==
    /\ WF_vars(LoopHead)
    /\ WF_vars(CallHook)
    /\ WF_vars(CallOperation)
    /\ WF_vars(Wait)
    /\ WF_vars(Tick)

SpecFair == Init /\ [][Next]_vars /\ Fairness

NextIter ==
    \/ SeqLoop
    \/ SeqWait
    \/ \E err \in Outcomes : Result(err)
    \/ Continue
    \/ Break
    \/ Tick
    \/ Cancel

SpecIter == InitIter /\ [][NextIter]_vars

(* ---------------------------- the attempt surface with queries -------- *)
\* The loop body may also call attempt.ShouldRetry(err), any number of times,
\* before and after Result.
NextQuery ==
    \/ SeqLoop
    \/ SeqWait
    \/ \E err \in Outcomes : Result(err)
    \/ \E err \in Outcomes : ShouldRetryCall(err)
    \/ Continue
    \/ Break
    \/ Tick
    \/ Cancel

\* Seq is about to start on a builder without a timeout; the queries do not
\* depend on the delays, so two backoffs are tried.
InitQuery ==
    /\ InitIter
    /\ b.timeout = 0
    /\ b.backoff \in {NoDelay, Constant(1)}

SpecQuery == InitQuery /\ [][NextQuery]_vars

(* ---------------------------- both surfaces, one after the other ------- *)
\* The configurations given to both surfaces: no timeout, no hooks.
TwinRetriers ==
    [maxAttempts : -1 .. MaxN, backoff : Backoffs, matcher : Matchers,
     timeout : {0}, hooks : {0}]

\* Iter().WithMaxAttempts(...).WithBackoff(...).RetryIf(...) for the settings of r
TwinBuilder(r) ==
    [maxAttempts |-> r.maxAttempts, backoff |-> r.backoff, matcher |-> r.matcher,
     timeout |-> 0, hasMetrics |-> FALSE]

\* recur.Do(op)...Run() is about to start; the same caller will then range over
\* Iter()...Seq() with the same settings, under a context that is never cancelled.
InitTwin ==
    /\ \E r \in TwinRetriers :
          LET cfg == ApplyAll(RunContextPolicies(r), DefaultConfig)
          IN  /\ config = cfg
              /\ nHooks = r.hooks
              /\ deadline = WithTimeout(cfg.timeout)
              /\ b = TwinBuilder(r)
    /\ cancelled = FALSE
    /\ now = 0
    /\ pc = "loop"
    /\ attempt = 1
    /\ lastErr = Nil
    /\ hi = 1
    /\ timerAt = 0
    /\ result = NoResult
    /\ events = <<>>
    /\ att = NoAttempt
    /\ lastAttempt = NoAttempt
    /\ operationStarted = FALSE
    /\ metrics = NewMetricsCollector
    /\ query = NoQuery
    /\ runs = NoRuns
    /\ shared = NewMetricsCollector
    /\ b0 = b
    /\ calc = NoCalc

\* execute has not returned to the caller yet.
EnginePhase == \A i \in 1 .. Len(events) : events[i].type # "switch"

\* execute has returned; the caller calls Seq and starts to range over it.  Seq
\* declares its own attempt counter and lastErr.
StartSeq ==
    /\ EnginePhase
    /\ pc = "done"
    /\ pc' = "loop"
    /\ attempt' = 1
    /\ lastErr' = Nil
    /\ events' = Append(events, Event("switch", 0, 0, Nil, 0, "", FALSE))
    /\ UNCHANGED <<cancelled, deadline, now, timerAt>>
    /\ UNCHANGED engineVars
    /\ UNCHANGED iterVars
    /\ UNCHANGED otherVars

\* The loop body runs the operation and reports its outcome with Result; the
\* operation behaves as it did under execute for as long as execute called it.
ReportOutcome ==
    /\ pc = "yielded"
    /\ ~lastAttempt.resultSet
    /\ \E err \in Outcomes :
          /\ attempt <= Len(SelectSeq(events, LAMBDA e : e.type = "op")) =>
                err = SelectSeq(events, LAMBDA e : e.type = "op")[attempt].err
          /\ Result(err)

\* The loop body ends after an error was reported.
ContinueOnError ==
    /\ lastAttempt.resultSet
    /\ lastAttempt.result # Nil
    /\ Continue

\* if err == nil { break }
BreakOnNil ==
    /\ lastAttempt.resultSet
    /\ lastAttempt.result = Nil
    /\ Break

NextTwin ==
    \/ EnginePhase /\ LoopHead
    \/ EnginePhase /\ CallOperation
    \/ EnginePhase /\ Wait
    \/ StartSeq
    \/ ~EnginePhase /\ SeqLoop
    \/ ~EnginePhase /\ SeqWait
    \/ ReportOutcome
    \/ ContinueOnError
    \/ BreakOnNil
    \/ Tick

SpecTwin == InitTwin /\ [][NextTwin]_vars

(* ---------------------------- the README's runs ------------------------ *)
ReadmeAttempts == 4     \* MaxAttempts of the runs below: three retries

\* The strategies of the README's "Multiple Backoff Strategies".
ReadmeBackoffs == {Exponential(100), Linear(100, 50), Fibonacci(50)}

\* recur.Do(op).WithBackoff(...).WithMaxAttempts(ReadmeAttempts), retrying on
\* every error, with or without a hook.
ReadmeRetriers ==
    [maxAttempts : {ReadmeAttempts}, backoff : ReadmeBackoffs,
     matcher : {[kind |-> "MatchAny", targets |-> {}]}, timeout : {0}, hooks : {0, 1}]

InitReadme ==
    /\ \E r \in ReadmeRetriers :
          LET cfg == ApplyAll(RunContextPolicies(r), DefaultConfig)
          IN  /\ config = cfg
              /\ nHooks = r.hooks
              /\ deadline = WithTimeout(cfg.timeout)
    /\ cancelled = FALSE
    /\ now = 0
    /\ pc = "loop"
    /\ attempt = 1
    /\ lastErr = Nil
    /\ hi = 1
    /\ timerAt = 0
    /\ result = NoResult
    /\ events = <<>>
    /\ b = Iter
    /\ att = NoAttempt
    /\ lastAttempt = NoAttempt
    /\ operationStarted = FALSE
    /\ metrics = NewMetricsCollector
    /\ query = NoQuery
    /\ runs = NoRuns
    /\ shared = NewMetricsCollector
    /\ b0 = b
    /\ calc = NoCalc

SpecReadme == InitReadme /\ [][Next]_vars

(* ------------- the loop body reconfigures the builder it ranges over ------ *)
\* A setter of IteratorBuilder called from the loop body, the first one of the run.
Set(field, value) ==
    /\ pc = "yielded"
    /\ b = b0
    /\ b' = [b EXCEPT ![field] = value]
    /\ UNCHANGED <<att, lastAttempt, operationStarted, metrics, cancelled, deadline, now, pc,
                   attempt, lastErr, timerAt, events>>
    /\ UNCHANGED engineVars
    /\ UNCHANGED otherVars

\* func (b *IteratorBuilder) WithMaxAttempts(n int) *IteratorBuilder
WithMaxAttempts(n) == Set("maxAttempts", n)

\* func (b *IteratorBuilder) RetryIf(matcher ErrorMatcher) *IteratorBuilder
RetryIf(matcher) == Set("matcher", matcher)

\* func (b *IteratorBuilder) WithBackoff(backoff Backoff) *IteratorBuilder
BuilderWithBackoff(backoff) == Set("backoff", backoff)

\* func (b *IteratorBuilder) WithMetricsCollector(m *MetricsCollector) *IteratorBuilder
WithMetricsCollector == Set("hasMetrics", TRUE)

NextIterSet ==
    \/ NextIter
    \/ \E n \in 1 .. MaxN : WithMaxAttempts(n)
    \/ \E matcher \in Matchers : RetryIf(matcher)
    \/ \E backoff \in Backoffs : BuilderWithBackoff(backoff)
    \/ WithMetricsCollector

SpecIterSet == InitIter /\ [][NextIterSet]_vars

(* ------------- several Seq runs that share one MetricsCollector ---------- *)
NumRuns == 2
MaxSharedN == 2

Runs == 1 .. NumRuns

\* One run of Seq before its first loop iteration: its loop counter, its
\* operationStarted flag, what was reported on the Attempt it yielded last, the
\* atomic Add calls its current code path still has to make, and the Add calls
\* it decided to make so far.
NewRun ==
    [pc |-> "loop", attempt |-> 1, operationStarted |-> FALSE, result |-> Nil,
     resultSet |-> FALSE, pending |-> <<>>, loaded |-> -1, own |-> NewMetricsCollector]

RECURSIVE Tally(_, _)
Tally(m, adds) ==
    IF adds = <<>> THEN m ELSE Tally([m EXCEPT ![Head(adds)] = @ + 1], Tail(adds))

\* The run takes a code path that makes these Add calls, in this order.
Issue(run, adds) == [run EXCEPT !.pending = adds, !.own = Tally(@, adds)]

\* FailureAdds without the operationStarted test.
FailureAddsUnguarded(run) == <<"TotalAttempts", "FailureCount">>

\* b.metrics.TotalAttempts.Add(1); b.metrics.FailureCount.Add(1), if operationStarted
FailureAdds(run) ==
    IF run.operationStarted THEN <<"TotalAttempts", "FailureCount">> ELSE <<>>

\* b.metrics.TotalAttempts.Add(1); lastErr is nil, so b.metrics.SuccessCount.Add(1)
FinalAdds == <<"TotalAttempts", "SuccessCount">>

singleVars ==
    <<engineVars, iterVars, cancelled, deadline, now, pc, attempt, lastErr, timerAt, events,
      query, b0, calc>>

\* Runs of one surface that has a collector, a matcher that accepts some errors
\* and rejects others, and no delays, all in flight.
InitShared ==
    /\ b \in {x \in Builders : /\ x.hasMetrics
                               /\ x.matcher.kind = "MatchErrors"
                               /\ x.backoff = NoDelay
                               /\ x.timeout = 0
                               /\ x.maxAttempts \in 1 .. MaxSharedN}
    /\ runs = [r \in Runs |-> NewRun]
    /\ shared = NewMetricsCollector
    /\ cancelled = FALSE
    /\ now = 0
    /\ deadline = 0
    /\ pc = "loop"
    /\ attempt = 1
    /\ lastErr = Nil
    /\ timerAt = 0
    /\ events = <<>>
    /\ att = NoAttempt
    /\ lastAttempt = NoAttempt
    /\ operationStarted = FALSE
    /\ metrics = NewMetricsCollector
    /\ config = DefaultConfig
    /\ nHooks = 0
    /\ hi = 1
    /\ result = NoResult
    /\ query = NoQuery
    /\ b0 = b
    /\ calc = NoCalc

\* The head of the for loop of run r, up to the TotalRetries increment.
RunLoop(r) ==
    LET run == runs[r]
    IN  /\ run.pc = "loop"
        /\ run.pending = <<>>
        /\ runs' = [runs EXCEPT ![r] =
              IF run.attempt <= b.maxAttempts
              THEN IF run.resultSet /\ run.result # Nil /\ ~Matches(b.matcher, run.result)
                   THEN Issue([run EXCEPT !.pc = "done"], FailureAdds(run))
                   ELSE Issue([run EXCEPT !.pc = "ctx"],
                              IF run.attempt > 1 THEN <<"TotalRetries">> ELSE <<>>)
              ELSE Issue([run EXCEPT !.pc = "done"],
                         IF run.operationStarted THEN FinalAdds ELSE <<>>)]
        /\ UNCHANGED shared
        /\ UNCHANGED singleVars

\* The select on ctx.Done() of run r, then the yield of a new Attempt (the
\* delay is 0, so there is no wait).
RunCtx(r) ==
    LET run == runs[r]
    IN  /\ run.pc = "ctx"
        /\ run.pending = <<>>
        /\ \/ runs' = [runs EXCEPT ![r] = Issue([run EXCEPT !.pc = "done"], FailureAdds(run))]
           \/ runs' = [runs EXCEPT ![r] =
                  [run EXCEPT !.pc = "yielded", !.operationStarted = TRUE,
                              !.result = Nil, !.resultSet = FALSE]]
        /\ UNCHANGED shared
        /\ UNCHANGED singleVars

\* The loop body of run r calls attempt.Result(err).
RunResult(r, err) ==
    /\ runs[r].pc = "yielded"
    /\ runs' = [runs EXCEPT ![r].result = err, ![r].resultSet = TRUE]
    /\ UNCHANGED shared
    /\ UNCHANGED singleVars

\* The loop body of run r ends: yield returns true.
RunContinue(r) ==
    /\ runs[r].pc = "yielded"
    /\ runs' = [runs EXCEPT ![r].pc = "loop", ![r].attempt = @ + 1]
    /\ UNCHANGED shared
    /\ UNCHANGED singleVars

\* The loop body of run r breaks: yield returns false.
RunBreak(r) ==
    /\ runs[r].pc = "yielded"
    /\ runs' = [runs EXCEPT ![r] = Issue([runs[r] EXCEPT !.pc = "done"], FinalAdds)]
    /\ UNCHANGED shared
    /\ UNCHANGED singleVars

AddLoadStore(r) ==
    LET run == runs[r]
    IN  /\ run.pending # <<>>
        /\ IF run.loaded = -1
           THEN /\ runs' = [runs EXCEPT ![r].loaded = shared[Head(run.pending)]]
                /\ UNCHANGED shared
           ELSE /\ shared' = [shared EXCEPT ![Head(run.pending)] = run.loaded + 1]
                /\ runs' = [runs EXCEPT ![r].pending = Tail(run.pending), ![r].loaded = -1]
        /\ UNCHANGED singleVars

\* atomic.Int64.Add(1) on the counter run r has to increment next.
Add(r) ==
    LET run == runs[r]
    IN  /\ run.pending # <<>>
        /\ shared' = [shared EXCEPT ![Head(run.pending)] = @ + 1]
        /\ runs' = [runs EXCEPT ![r].pending = Tail(run.pending)]
        /\ UNCHANGED singleVars

NextShared ==
    \E r \in Runs :
        \/ RunLoop(r)
        \/ RunCtx(r)
        \/ \E err \in Outcomes : RunResult(r, err)
        \/ RunContinue(r)
        \/ RunBreak(r)
        \/ Add(r)

SpecShared == InitShared /\ [][NextShared]_vars

(* ---------------------------- pure functions --------------------------- *)
MaxPolicies == 3

\* The policies tried, one or two for each field of the configuration.
AtomicPolicies ==
    {MaxAttempts(1), MaxAttempts(2), Timeout(1), WithBackoff(NoDelay),
     OnlyRetryIf([kind |-> "MatchNone", targets |-> {}])}

PolicyLists == UNION {[1 .. k -> AtomicPolicies] : k \in 0 .. MaxPolicies}

\* The ways the caller hands the policies ps to execute: as they are, wrapped in
\* one CombinePolicies, or in nested CombinePolicies grouped to the left or right.
Groupings == {"flat", "one", "left", "right"}

Group(ps, g) ==
    CASE g = "flat" -> ps
      [] g = "one" -> <<CombinePolicies(ps)>>
      [] g = "left" ->
            IF ps = <<>> THEN <<CombinePolicies(ps)>>
            ELSE <<CombinePolicies(<<CombinePolicies(SubSeq(ps, 1, Len(ps) - 1)),
                                     ps[Len(ps)]>>)>>
      [] g = "right" ->
            IF ps = <<>> THEN <<CombinePolicies(ps)>>
            ELSE <<CombinePolicies(<<Head(ps), CombinePolicies(Tail(ps))>>)>>

ResolveInputs ==
    {[fn |-> "resolve", in |-> [policies |-> ps, grouping |-> g], done |-> FALSE] :
        ps \in PolicyLists, g \in Groupings}

\* The matchers tried: the built-in ones, MatchErrors with up to two targets (one
\* list holds a nil target), every MatchFunc over the three outcomes, their
\* negations, and And and Or of no matcher and of every two of these.
BaseMatchers ==
    Matchers
    \cup {[kind |-> "MatchErrors", targets |-> {"E1", "E2"}],
          [kind |-> "MatchErrors", targets |-> {Nil, "E1"}]}
    \cup {MatchFunc(accepted) : accepted \in SUBSET Outcomes}

SimpleMatchers == BaseMatchers \cup {Not(m) : m \in BaseMatchers}

AllMatchers ==
    SimpleMatchers
    \cup {And(<<>>), Or(<<>>)}
    \cup {And(<<x, y>>) : x \in SimpleMatchers, y \in SimpleMatchers}
    \cup {Or(<<x, y>>) : x \in SimpleMatchers, y \in SimpleMatchers}

MatcherInputs ==
    {[fn |-> "match", in |-> [m |-> m, err |-> err], done |-> FALSE] :
        m \in AllMatchers, err \in Outcomes}

MaxArg == 22            \* largest attempt whose delay is compared with the formula
MaxBigArg == 60         \* largest attempt passed to Exponential and Fibonacci
HugeAttempt == 2000000000

\* The backoffs tried: the README's and the tests', with the default cap and
\* with a cap they reach early, and a Linear with a long increment.
NextBackoffs ==
    {Constant(100), Constant(1), NoDelay,
     Exponential(100), Exponential(1), WithMaxDelay(Exponential(100), 500),
     Fibonacci(100), Fibonacci(50), Fibonacci(1), WithMaxDelay(Fibonacci(100), 500),
     Linear(100, 50), Linear(1, 1), WithMaxDelay(Linear(100, 50), 220), Linear(100, 5000)}

NextInputs ==
    {[fn |-> "next", in |-> [b |-> bo, attempt |-> n], done |-> FALSE] :
        bo \in NextBackoffs, n \in 1 .. MaxBigArg}
    \cup {[fn |-> "next", in |-> [b |-> bo, attempt |-> HugeAttempt], done |-> FALSE] :
             bo \in {x \in NextBackoffs : x.kind = "Linear"}}

MaxChildren == 3        \* most children of one And or Or

\* The children tried: every MatchFunc over the three outcomes.
Children == {MatchFunc(accepted) : accepted \in SUBSET Outcomes}

RECURSIVE SeqsUpTo(_, _)
SeqsUpTo(S, n) ==
    IF n = 0 THEN {<<>>}
    ELSE LET shorter == SeqsUpTo(S, n - 1)
         IN  shorter \cup {Append(q, x) : q \in {r \in shorter : Len(r) = n - 1}, x \in S}

CallsInputs ==
    {[fn |-> "calls", in |-> [m |-> m, err |-> err], done |-> FALSE] :
        m \in {And(q) : q \in SeqsUpTo(Children, MaxChildren)}
               \cup {Or(q) : q \in SeqsUpTo(Children, MaxChildren)},
        err \in Outcomes}

CalcInputs == ResolveInputs \cup MatcherInputs \cup NextInputs \cup CallsInputs

\* A call of one pure function is about to be made; no run is in progress.
InitCalc ==
    /\ calc \in CalcInputs
    /\ b = Iter
    /\ b0 = b
    /\ cancelled = FALSE
    /\ now = 0
    /\ deadline = 0
    /\ pc = "loop"
    /\ attempt = 1
    /\ lastErr = Nil
    /\ timerAt = 0
    /\ events = <<>>
    /\ att = NoAttempt
    /\ lastAttempt = NoAttempt
    /\ operationStarted = FALSE
    /\ metrics = NewMetricsCollector
    /\ config = DefaultConfig
    /\ nHooks = 0
    /\ hi = 1
    /\ result = NoResult
    /\ query = NoQuery
    /\ runs = NoRuns
    /\ shared = NewMetricsCollector

calcFrame ==
    <<engineVars, iterVars, cancelled, deadline, now, pc, attempt, lastErr, timerAt, events,
      query, runs, shared, b0>>

Returned(out) == [fn |-> calc.fn, in |-> calc.in, done |-> TRUE, out |-> out]

\* execute resolves its configuration: the defaults, then every policy in order.
Resolve ==
    /\ calc.fn = "resolve"
    /\ ~calc.done
    /\ calc' = Returned(ApplyAll(Group(calc.in.policies, calc.in.grouping), DefaultConfig))
    /\ UNCHANGED calcFrame

\* A matcher is called on an error.
EvalMatcher ==
    /\ calc.fn = "match"
    /\ ~calc.done
    /\ calc' = Returned(Matches(calc.in.m, calc.in.err))
    /\ UNCHANGED calcFrame

\* backoff.Next(attempt) is called.
EvalNext ==
    /\ calc.fn = "next"
    /\ ~calc.done
    /\ calc' = Returned(BackoffNext64(calc.in.b, calc.in.attempt))
    /\ UNCHANGED calcFrame

\* And(...)(err) or Or(...)(err) is called.
EvalCalls ==
    /\ calc.fn = "calls"
    /\ ~calc.done
    /\ calc' = Returned(IF calc.in.m.kind = "And" THEN AndCalls(calc.in.m.args, calc.in.err, 1)
                        ELSE OrCalls(calc.in.m.args, calc.in.err, 1))
    /\ UNCHANGED calcFrame

NextCalc ==
    \/ Resolve
    \/ EvalMatcher
    \/ EvalNext
    \/ EvalCalls

SpecCalc == InitCalc /\ [][NextCalc]_vars

(* ---------------------------- history ---------------------------------- *)
Done == pc = "done"

OfType(t) == SelectSeq(events, LAMBDA e : e.type = t)

Ops == OfType("op")
NumOps == Len(Ops)
LastOpErr == IF NumOps = 0 THEN Nil ELSE Ops[NumOps].err
OpErr(a) == IF a \in 1 .. NumOps THEN Ops[a].err ELSE Nil
LastEvent == events[Len(events)]

\* Every invocation so far failed with an error the matcher accepts.
AllFailedRetryable ==
    \A i \in 1 .. NumOps : Ops[i].err # Nil /\ Matches(config.matcher, Ops[i].err)

\* The hook calls and the invocation of attempt a, in the order they happened.
CallsOf(a) == SelectSeq(events, LAMBDA e : e.attempt = a /\ e.type \in {"hook", "op"})

(* ---------------------------- synchronous engine ----------------------- *)
\* C1: with maxAttempts = N >= 1, every invocation failing with an accepted error
\* and the context never done, the run ends after exactly N invocations, numbered
\* 1..N, with MaxAttemptsExceededError{Attempts: N, LastErr: error of the N-th}.
C1_Exhaustion ==
    (Done /\ config.maxAttempts >= 1 /\ ~CtxDone /\ AllFailedRetryable) =>
        /\ NumOps = config.maxAttempts
        /\ \A i \in 1 .. NumOps : Ops[i].attempt = i
        /\ result = MaxAttemptsExceededError(config.maxAttempts, Ops[NumOps].err)

C1_Witness ==
    /\ Done /\ ~CtxDone /\ AllFailedRetryable
    /\ config.maxAttempts = MaxN
    /\ NumOps = MaxN
    /\ result.kind = "MAEE" /\ result.attempts = MaxN

\* C2: an invocation that returns nil is the last thing the run does: it is the
\* K-th of K invocations, K <= maxAttempts, the result is nil, and no hook, wait
\* or invocation follows it; and with a live context a run whose invocations all
\* failed retryably does not stop before maxAttempts invocations, so invocation K
\* is reached.
C2_SuccessAtK ==
    /\ \A i \in 1 .. Len(events) :
          (events[i].type = "op" /\ events[i].err = Nil) =>
              /\ i = Len(events)
              /\ Done
              /\ result = ReturnNil
              /\ events[i].attempt = NumOps
              /\ NumOps <= config.maxAttempts
              /\ \A k \in 1 .. NumOps - 1 :
                    Ops[k].err # Nil /\ Matches(config.matcher, Ops[k].err)
    /\ (Done /\ ~CtxDone /\ AllFailedRetryable) => NumOps >= config.maxAttempts

C2_Witness ==
    /\ Done /\ result = ReturnNil
    /\ NumOps = 2 /\ config.maxAttempts = MaxN
    /\ nHooks > 0
    /\ Len(OfType("wait")) = 1

\* C3: an invocation, at any attempt number up to the last allowed one, that
\* returns a non-nil error the matcher rejects ends the run at once: the result is
\* that error itself, not a MaxAttemptsExceededError, and no wait or invocation
\* follows; with MatchErrors(E) and a first failure F # E there is one invocation.
C3_RejectedVerbatim ==
    /\ \A i \in 1 .. Len(events) :
          (/\ events[i].type = "op"
           /\ events[i].err # Nil
           /\ ~Matches(config.matcher, events[i].err)) =>
              /\ i = Len(events)
              /\ Done
              /\ result = ReturnErr(events[i].err)
              /\ result.kind # "MAEE"
    /\ (/\ config.matcher.kind = "MatchErrors"
        /\ NumOps >= 1
        /\ Ops[1].err \notin (config.matcher.targets \cup {Nil})) => NumOps = 1

C3_Witness ==
    /\ Done
    /\ config.maxAttempts = MaxN
    /\ NumOps = MaxN
    /\ config.matcher.kind = "MatchErrors"
    /\ LastOpErr = "E2"
    /\ result = ReturnErr("E2")

\* C4: attempts are logged in increasing order, and the calls of each attempt are
\* hook 1, ..., hook nHooks, then the operation: each hook once, in registration
\* order, with the attempt's number and the error of the previous invocation (nil
\* for attempt 1), and no hook of an attempt after its operation.
C4_HooksBeforeOperation ==
    /\ \A i \in 1 .. Len(events) : events[i].attempt \in 1 .. attempt
    /\ \A i \in 1 .. Len(events) - 1 : events[i].attempt <= events[i + 1].attempt
    /\ \A a \in 1 .. attempt :
          LET calls == CallsOf(a)
              prev == OpErr(a - 1)
          IN  /\ Len(calls) <= nHooks + 1
              /\ \A k \in 1 .. Len(calls) :
                    IF k <= nHooks
                    THEN /\ calls[k].type = "hook"
                         /\ calls[k].idx = k
                         /\ calls[k].err = prev
                    ELSE calls[k].type = "op"

C4_Witness ==
    /\ Done
    /\ nHooks = MaxHooks
    /\ NumOps = 2
    /\ Len(OfType("hook")) = 2 * MaxHooks
    /\ \E i \in 1 .. Len(events) :
          events[i].type = "hook" /\ events[i].attempt = 2 /\ events[i].err # Nil

\* C5: when the context is done by the time the backoff wait after attempt k
\* ends, whichever branch of the select is taken, nothing more is invoked and
\* the run ends with MaxAttemptsExceededError{Attempts: k, LastErr: error of k}.
C5_CancelDuringWait ==
    \A i \in 1 .. Len(events) :
        (events[i].type = "wait" /\ events[i].ctxDone) =>
            /\ i = Len(events)
            /\ pc \in {"loop", "done"}
            /\ NumOps = events[i].attempt
            /\ Done => result = MaxAttemptsExceededError(events[i].attempt,
                                                         OpErr(events[i].attempt))

C5_Witness ==
    /\ Done
    /\ events # <<>>
    /\ LastEvent.type = "wait" /\ LastEvent.by = "timer" /\ LastEvent.ctxDone
    /\ LastEvent.attempt = 2
    /\ result.kind = "MAEE" /\ result.attempts = 2

\* C6: with maxAttempts >= 1 a MaxAttemptsExceededError carries the number of
\* invocations made and the error of the last one (nil if none); returned from
\* the check that opens attempt k it carries k - 1, and with the context done
\* before attempt 1 it carries 0 and nil and no hook or operation has run.
C6_AttemptsCountInvocations ==
    (Done /\ result.kind = "MAEE" /\ config.maxAttempts >= 1) =>
        /\ result.attempts = NumOps
        /\ result.err = LastOpErr
        /\ NumOps = 0 => (events = <<>> /\ result = MaxAttemptsExceededError(0, Nil))
        /\ (/\ attempt <= config.maxAttempts
            /\ (events = <<>> \/ (LastEvent.type = "wait" /\ LastEvent.by = "timer")))
           => result.attempts = attempt - 1

C6_Witness ==
    /\ Done /\ result.kind = "MAEE"
    /\ config.maxAttempts = MaxN
    /\ attempt = 2 /\ result.attempts = 1
    /\ LastEvent.type = "wait" /\ LastEvent.by = "timer"
    /\ result.err # Nil

\* C7: the result is nil exactly when the last invocation returned nil; when it
\* returned an error e the result is e itself or a MaxAttemptsExceededError that
\* unwraps to e.
C7_NeverSwallows ==
    Done =>
        /\ (result.kind = "nil") <=> (NumOps > 0 /\ LastOpErr = Nil)
        /\ LastOpErr # Nil =>
              \/ result = ReturnErr(LastOpErr)
              \/ (result.kind = "MAEE" /\ Unwrap(result) = LastOpErr)

C7_Witness ==
    /\ Done
    /\ NumOps = 2 /\ config.maxAttempts = MaxN
    /\ Ops[1].err # Ops[2].err
    /\ result.kind = "MAEE" /\ Unwrap(result) = Ops[2].err

\* The deadline is the one derived when the run began, and no attempt passes
\* its opening check once that deadline has expired; without a timeout only
\* the caller's context and maxAttempts end a run whose invocations keep failing.
OneDeadline ==
    /\ deadline = WithTimeout(config.timeout)
    /\ \A i \in 1 .. Len(events) :
          (events[i].type = "start" /\ config.timeout > 0) => events[i].at < config.timeout
    /\ (Done /\ config.timeout = 0 /\ ~cancelled /\ AllFailedRetryable) =>
          NumOps >= config.maxAttempts

Expired == config.timeout > 0 /\ now >= config.timeout

\* C8 as stated: OneDeadline, and every run that ends with the deadline expired
\* ends with a MaxAttemptsExceededError.
C8_Original ==
    /\ OneDeadline
    /\ (Done /\ Expired) => result.kind = "MAEE"

\* C8 amended: OneDeadline, and a run that ends with the deadline expired ends
\* with a MaxAttemptsExceededError unless the attempt that was in progress when
\* the deadline expired returned nil or an error the matcher rejects, which is
\* then the result.
C8_OverallDeadline ==
    /\ OneDeadline
    /\ (Done /\ Expired) =>
          \/ result.kind = "MAEE"
          \/ /\ LastEvent.type = "op"
             /\ LastEvent.at >= config.timeout
             /\ LastEvent.err = Nil \/ ~Matches(config.matcher, LastEvent.err)
             /\ result = (IF LastEvent.err = Nil THEN ReturnNil ELSE ReturnErr(LastEvent.err))

C8_Witness ==
    /\ Done /\ Expired /\ ~cancelled
    /\ result.kind = "MAEE"
    /\ NumOps = 2 /\ config.maxAttempts = MaxN
    /\ Ops[2].at > 0

(* ---------------------------- attempt surface -------------------------- *)
Yields == OfType("yield")
Bodies == SelectSeq(events, LAMBDA e : e.type \in {"body", "break"})

\* The caller reported an accepted error on every Attempt and never broke.
AlwaysReportsRetryable ==
    /\ OfType("break") = <<>>
    /\ Len(Bodies) = Len(Yields)
    /\ \A i \in 1 .. Len(Bodies) :
          /\ Bodies[i].by = "reported"
          /\ Bodies[i].err # Nil
          /\ Matches(b.matcher, Bodies[i].err)

\* C9: with maxAttempts = N, a live context and a caller that reports an accepted
\* error on every Attempt and never breaks, the Attempts produced are exactly
\* Number 1, ..., N, and the sequence then ends at the ceiling.
C9_IterAllAttempts ==
    (Done /\ ~CtxDone /\ b.maxAttempts >= 0 /\ AlwaysReportsRetryable) =>
        /\ Len(Yields) = b.maxAttempts
        /\ \A i \in 1 .. Len(Yields) : Yields[i].attempt = i
        /\ LastEvent.type = "end" /\ LastEvent.by = "ceiling"

C9_Witness ==
    /\ Done /\ ~CtxDone /\ AlwaysReportsRetryable
    /\ b.maxAttempts = MaxN
    /\ Len(Yields) = MaxN
    /\ b.matcher.kind = "MatchErrors"

\* The waits armed before event i.
ArmedBefore(i) == Cardinality({j \in 1 .. i - 1 : events[j].type = "arm"})

\* C10: Attempt 1 has Delay 0 and is the first thing the run does; Attempt n > 1
\* has Delay = backoff.Next(n - 1), and when that is positive the timer armed for
\* it ran its full length before the Attempt was handed over; an armed wait ends
\* in that Attempt or in the end of the sequence on cancellation; with positive
\* delays n - 1 waits precede Attempt n.
C10_IterDelay ==
    /\ \A i \in 1 .. Len(events) :
          events[i].type = "yield" =>
              IF events[i].attempt = 1
              THEN events[i].delay = 0 /\ i = 1
              ELSE /\ events[i].delay = BackoffNext(b.backoff, events[i].attempt - 1)
                   /\ IF events[i].delay > 0
                      THEN /\ events[i - 1].type = "arm"
                           /\ events[i - 1].attempt = events[i].attempt
                           /\ events[i - 1].delay = events[i].delay
                           /\ events[i].at - events[i - 1].at >= events[i].delay
                      ELSE events[i - 1].type = "body"
                   /\ ArmedBefore(i) =
                          Cardinality({k \in 1 .. events[i].attempt - 1 :
                                          BackoffNext(b.backoff, k) > 0})
    /\ \A i \in 1 .. Len(events) :
          events[i].type = "arm" =>
              \/ i = Len(events) /\ pc = "wait"
              \/ /\ i < Len(events)
                 /\ \/ events[i + 1].type = "yield"
                    \/ events[i + 1].type = "end" /\ events[i + 1].by = "ctxwait"
                                                  /\ events[i + 1].ctxDone

C10_Witness ==
    /\ Done
    /\ b.backoff.kind = "Exponential"
    /\ \E i \in 1 .. Len(events) :
          /\ events[i].type = "yield"
          /\ events[i].attempt = 3
          /\ events[i].delay = 4
          /\ ArmedBefore(i) = 2
          /\ events[i].at >= 6

(* ---------------------------- C11 .. C20 ------------------------------- *)
\* The loop body reported on its Attempt an error the matcher rejects, and then
\* asked for the next Attempt.
RejectedReport(e) ==
    /\ e.type = "body"
    /\ e.by = "reported"
    /\ e.err # Nil
    /\ ~Matches(b.matcher, e.err)

\* C11: when the loop body reported a rejected error on Attempt N-1 and then asks
\* for the next Attempt, the sequence ends at once, with no Attempt N and no wait,
\* and a collector records a failure: TotalAttempts 1, FailureCount 1, SuccessCount 0.
C11_RejectedStops ==
    \A i \in 1 .. Len(events) - 1 :
        RejectedReport(events[i]) =>
            /\ i + 1 = Len(events)
            /\ events[i + 1].type = "end"
            /\ b.hasMetrics =>
                  /\ metrics.TotalAttempts = 1
                  /\ metrics.FailureCount = 1
                  /\ metrics.SuccessCount = 0

\* C12: Attempt 1 has LastErr = nil, and Attempt N > 1 has LastErr = the outcome
\* the loop body reported on Attempt N-1 (nil when it reported nothing).
C12_LastErrIsReported ==
    \A i \in 1 .. Len(Yields) :
        Yields[i].err = IF i = 1 THEN Nil ELSE Bodies[i - 1].err

\* C13: ShouldRetry(err) returns true exactly when err is not nil, the Attempt's
\* Number is below the configured maxAttempts, and the configured matcher accepts
\* err.
C13_ShouldRetryIff ==
    query.asked =>
        (query.ret <=> /\ query.err # Nil
                       /\ query.a.Number < b.maxAttempts
                       /\ Matches(b.matcher, query.err))

\* Attempt 2 of a surface that matches by error value was asked about an error it
\* accepts and answered true.
C13_Witness ==
    /\ query.asked
    /\ query.ret
    /\ query.a.Number = 2
    /\ b.matcher.kind = "MatchErrors"

\* The loop body asked for Attempt n > 1 when the context was done: the run ended
\* in the SeqLoop step that followed its last body.
AskedWhenDone ==
    /\ Done
    /\ CtxDone
    /\ LastEvent.type = "end"
    /\ LastEvent.by # "ctxwait"
    /\ LastEvent.attempt > 1

\* The claim of C14 as it was written: whenever the context is done when the loop
\* body asks for Attempt N > 1, a collector records a failure.
C14_Original ==
    (AskedWhenDone /\ b.hasMetrics) =>
        /\ metrics.TotalAttempts = 1
        /\ metrics.FailureCount = 1

\* C14: no Attempt is handed over and no wait is started straight after a loop
\* body when the context is done; and when the context is done as the loop body
\* asks for Attempt N, 1 < N <= maxAttempts, a collector records a failure:
\* TotalAttempts 1, FailureCount 1, SuccessCount 0.
C14_CtxDoneStops ==
    /\ \A i \in 2 .. Len(events) :
          (events[i - 1].type = "body" /\ events[i].type \in {"yield", "arm"})
              => ~events[i].ctxDone
    /\ (AskedWhenDone /\ LastEvent.attempt <= b.maxAttempts) =>
          /\ LastEvent.by \in {"rejected", "ctx"}
          /\ b.hasMetrics =>
                /\ metrics.TotalAttempts = 1
                /\ metrics.FailureCount = 1
                /\ metrics.SuccessCount = 0

\* The timeout expired during the body of Attempt 1; the request for Attempt 2
\* ended the run, recorded as a failure.
C14_Witness ==
    /\ AskedWhenDone
    /\ ~cancelled
    /\ LastEvent.by = "ctx"
    /\ LastEvent.attempt = 2
    /\ b.hasMetrics
    /\ metrics.FailureCount = 1

\* C15: a wait never ends in an Attempt when the context is done at that moment,
\* and a run that ends in a wait is recorded as a failure.
C15_NoAttemptAfterCancelledWait ==
    /\ \A i \in 2 .. Len(events) :
          (events[i - 1].type = "arm" /\ events[i].type = "yield") => ~events[i].ctxDone
    /\ (Done /\ LastEvent.type = "end" /\ LastEvent.by = "ctxwait" /\ b.hasMetrics) =>
          /\ metrics.TotalAttempts = 1
          /\ metrics.FailureCount = 1

\* The run ended by the loop body breaking or by the ceiling, after at least one
\* Attempt.
EndedByBreakOrCeiling ==
    /\ Done
    /\ Yields # <<>>
    /\ \/ LastEvent.type = "break"
       \/ LastEvent.type = "end" /\ LastEvent.by = "ceiling"

\* C16: a run that ends by a break or by the ceiling is classified by what was
\* reported on its last Attempt: FailureCount 1 when that was an error,
\* SuccessCount 1 when it was nil or nothing.
C16_ClassifiedByLastOutcome ==
    (EndedByBreakOrCeiling /\ b.hasMetrics) =>
        IF Bodies[Len(Bodies)].err # Nil
        THEN metrics.FailureCount = 1 /\ metrics.SuccessCount = 0
        ELSE metrics.SuccessCount = 1 /\ metrics.FailureCount = 0

\* C17: TotalAttempts is 1 once a run with a collector that produced at least one
\* Attempt has ended, however it ended, and 0 in every other state.
C17_OneTotalAttempt ==
    metrics.TotalAttempts = IF Done /\ b.hasMetrics /\ Yields # <<>> THEN 1 ELSE 0

\* A run that produced two Attempts and was cancelled in the wait before the third.
C17_Witness ==
    /\ Done
    /\ b.hasMetrics
    /\ LastEvent.type = "end"
    /\ LastEvent.by = "ctxwait"
    /\ Len(Yields) = 2
    /\ metrics.TotalAttempts = 1

\* C18: a run with a collector that produced k >= 1 Attempts leaves TotalRetries
\* = k - 1, however it ended.
C18_RetriesPerAttempt ==
    (Done /\ b.hasMetrics /\ Yields # <<>>) => metrics.TotalRetries = Len(Yields) - 1

\* C19: a run that produced Attempts 1..N and ended by a break on Attempt N and a
\* run that produced them and ended by the ceiling leave the same counters, which
\* depend on N alone: TotalAttempts 1, SuccessCount 1, FailureCount 0,
\* TotalRetries N - 1.
C19_BreakLikeCeiling ==
    (EndedByBreakOrCeiling /\ b.hasMetrics) =>
        metrics = [TotalAttempts |-> 1, SuccessCount |-> 1, FailureCount |-> 0,
                   TotalRetries |-> Len(Yields) - 1]

\* The loop body reported an error on Attempt 2 of 3 and broke.
C19_Witness ==
    /\ EndedByBreakOrCeiling
    /\ b.hasMetrics
    /\ LastEvent.type = "break"
    /\ LastEvent.err # Nil
    /\ Len(Yields) = 2
    /\ b.maxAttempts = 3

\* Every concurrent run has returned and made all its Add calls.
AllRunsDone ==
    /\ runs # NoRuns
    /\ \A r \in Runs : runs[r].pc = "done" /\ runs[r].pending = <<>>

\* The increments of counter c that runs 1 .. n decided to make.
RECURSIVE SumOwn(_, _)
SumOwn(c, n) == IF n = 0 THEN 0 ELSE runs[n].own[c] + SumOwn(c, n - 1)

\* C20: once all the runs that share a collector have ended, each counter equals
\* the sum of the increments the runs made, and TotalAttempts is the number of
\* runs that produced at least one Attempt, whatever the interleaving was.
C20_NoLostUpdate ==
    AllRunsDone =>
        /\ \A c \in DOMAIN shared : shared[c] = SumOwn(c, NumRuns)
        /\ shared.TotalAttempts = Cardinality({r \in Runs : runs[r].operationStarted})

\* All runs produced an Attempt; between them they retried, failed and succeeded.
C20_Witness ==
    /\ AllRunsDone
    /\ shared.TotalAttempts = NumRuns
    /\ shared.SuccessCount >= 1
    /\ shared.FailureCount >= 1
    /\ shared.TotalRetries >= 2

(* ---------------------------- C21 .. C30 ------------------------------- *)
\* The value the last policy of ps that sets the field gives it, or the default.
RECURSIVE LastSet(_, _, _)
LastSet(ps, field, default) ==
    IF ps = <<>> THEN default
    ELSE IF ps[Len(ps)].field = field THEN ps[Len(ps)].value
    ELSE LastSet(SubSeq(ps, 1, Len(ps) - 1), field, default)

\* C21: however the policies p1, ..., pn are grouped into (nested) CombinePolicies,
\* the resolved configuration is the one obtained by applying p1, ..., pn one
\* after another: each field has the value of the last policy that sets it, and
\* the default (3, Constant(100ms), MatchAny, 0) when none does.
C21_PoliciesInOrder ==
    (calc.fn = "resolve" /\ calc.done) =>
        \A f \in DOMAIN DefaultConfig :
            calc.out[f] = LastSet(calc.in.policies, f, DefaultConfig[f])

\* MaxAttempts(1), Timeout(1), MaxAttempts(2) grouped to the left: the later
\* MaxAttempts wins, and backoff and matcher keep their defaults.
C21_Witness ==
    /\ calc.fn = "resolve"
    /\ calc.done
    /\ calc.in.grouping = "left"
    /\ calc.in.policies = <<MaxAttempts(1), Timeout(1), MaxAttempts(2)>>
    /\ calc.out = [DefaultConfig EXCEPT !.maxAttempts = 2, !.timeout = 1]

\* C22: the resolved configuration of a run of the engine has maxAttempts >= 1.
C22_MaxAttemptsPositive == config.maxAttempts >= 1

Hooks == OfType("hook")

\* C30: the engine invokes the operation at most maxAttempts times (never when
\* maxAttempts <= 0); the i-th invocation is attempt i; every attempt calls each
\* hook once, in registration order, with its own number, so the numbers the
\* hooks see are 1, 2, 3, ... without gap or repeat; and what the run does
\* happens one thing after another, attempt numbers never going back.
C30_SequentialAttempts ==
    /\ NumOps <= IF config.maxAttempts > 0 THEN config.maxAttempts ELSE 0
    /\ \A i \in 1 .. NumOps : Ops[i].attempt = i
    /\ \A j \in 1 .. Len(Hooks) :
          /\ Hooks[j].attempt = ((j - 1) \div nHooks) + 1
          /\ Hooks[j].idx = ((j - 1) % nHooks) + 1
    /\ Len(Hooks) \in {NumOps * nHooks + k : k \in 0 .. nHooks}
    /\ \A i \in 2 .. Len(events) :
          /\ events[i - 1].attempt <= events[i].attempt
          /\ events[i - 1].at <= events[i].at

\* A run with a timeout and all its hooks that used every attempt.
C30_Witness ==
    /\ Done
    /\ config.maxAttempts = MaxN
    /\ NumOps = MaxN
    /\ nHooks = MaxHooks
    /\ Len(Hooks) = MaxN * MaxHooks
    /\ deadline > 0

\* C23: an iteration uses the configuration the builder had when Seq was called:
\* its Attempts stay within that ceiling and carry that ceiling and matcher, their
\* delays come from that backoff, only that matcher's rejection ends the run, and
\* a collector attached later is not written to.
C23_ConfigFixedAtStart ==
    /\ \A i \in 1 .. Len(Yields) :
          /\ Yields[i].attempt <= b0.maxAttempts
          /\ Yields[i].delay = IF i = 1 THEN 0 ELSE BackoffNext(b0.backoff, i - 1)
    /\ lastAttempt # NoAttempt =>
          /\ lastAttempt.maxRetry = b0.maxAttempts
          /\ lastAttempt.matcher = b0.matcher
    /\ (Done /\ LastEvent.type = "end" /\ LastEvent.by = "rejected") =>
          ~Matches(b0.matcher, Bodies[Len(Bodies)].err)
    /\ ~b0.hasMetrics => metrics = NewMetricsCollector

\* C24: And(A, B)(err) = A(err) and B(err), Or(A, B)(err) = A(err) or B(err),
\* Not(A)(err) = not A(err), MatchAny(err) is true exactly for a non-nil err,
\* MatchNone(err) is false, and MatchErrors without a nil target is false for nil.
C24_MatcherAlgebra ==
    (calc.fn = "match" /\ calc.done) =>
        LET m == calc.in.m
            err == calc.in.err
        IN  /\ (m.kind = "And" /\ Len(m.args) = 2) =>
                  (calc.out <=> (Matches(m.args[1], err) /\ Matches(m.args[2], err)))
            /\ (m.kind = "Or" /\ Len(m.args) = 2) =>
                  (calc.out <=> (Matches(m.args[1], err) \/ Matches(m.args[2], err)))
            /\ m.kind = "Not" => (calc.out <=> ~Matches(m.args[1], err))
            /\ m.kind = "MatchAny" => (calc.out <=> err # Nil)
            /\ m.kind = "MatchNone" => ~calc.out
            /\ (m.kind = "MatchErrors" /\ Nil \notin m.targets /\ err = Nil) => ~calc.out

\* And(MatchAny, Not(MatchErrors(E1))) was called on E1 and returned false: its
\* first matcher accepts E1 and its second does not.
C24_Witness ==
    /\ calc.fn = "match"
    /\ calc.done
    /\ calc.in.m = And(<<[kind |-> "MatchAny", targets |-> {}],
                         Not([kind |-> "MatchErrors", targets |-> {"E1"}])>>)
    /\ calc.in.err = "E1"
    /\ ~calc.out

\* backoff.Next(attempt) has returned calc.out.
NextReturned == calc.fn = "next" /\ calc.done

Min(x, y) == IF x <= y THEN x ELSE y

\* <<fib(n), fib(n-1)>> of the sequence 1, 1, 2, 3, 5, 8, ...
RECURSIVE FibPair(_)
FibPair(n) ==
    IF n = 0 THEN <<1, 0>>
    ELSE LET prev == FibPair(n - 1) IN <<prev[1] + prev[2], prev[1]>>

Fib(n) == FibPair(n)[1]

ExponentialMath(bo, n) ==
    IF n <= MaxArg THEN Min(bo.max, bo.initial * 2^n) ELSE bo.max

\* C26: Exponential(initial), factor 2, returns min(max, initial * 2^n) for every
\* n >= 1, and Next(n) < Next(n+1) until Next(n) is the cap; Exponential(100ms)
\* gives 200ms, 400ms and 800ms for n = 1, 2, 3.  The delays the runs wait,
\* ExponentialNext, are the same numbers.
C26_ExponentialFormula ==
    (NextReturned /\ calc.in.b.kind = "Exponential") =>
        LET bo == calc.in.b
            n == calc.in.attempt
        IN  /\ calc.out = Ms(ExponentialMath(bo, n))
            /\ n <= MaxArg => calc.out = Ms(ExponentialNext(bo, n))
            /\ \/ Less(calc.out, ExponentialNext64(bo, n + 1))
               \/ calc.out = Ms(bo.max)
            /\ (bo = Exponential(100) /\ n <= 3) => calc.out = Ms(<<200, 400, 800>>[n])

C26_Witness ==
    /\ NextReturned
    /\ calc.in = [b |-> Exponential(100), attempt |-> 3]
    /\ calc.out = Ms(800)

\* min(max, initial + increment * n), without forming a product above max
LinearMath(bo, n) ==
    IF bo.increment > 0 /\ n > bo.max \div bo.increment THEN bo.max
    ELSE Min(bo.max, bo.initial + bo.increment * n)

\* C27: Linear(initial, increment).Next(n) is min(max, initial + increment * n)
\* for every n >= 1, Linear(100ms, 50ms) gives 150ms, 200ms and 250ms for
\* n = 1, 2, 3, Constant(d).Next(n) is d and NoDelay().Next(n) is 0.
C27_LinearConstantNoDelay ==
    NextReturned =>
        LET bo == calc.in.b
            n == calc.in.attempt
        IN  /\ bo.kind = "Linear" => calc.out = Ms(LinearMath(bo, n))
            /\ (bo = Linear(100, 50) /\ n <= 3) => calc.out = Ms(<<150, 200, 250>>[n])
            /\ bo.kind = "Constant" => calc.out = Ms(bo.initial)
            /\ bo.kind = "NoDelay" => calc.out = Int64(0)

\* C28: for the Exponential, Fibonacci and Linear backoffs and every attempt
\* n >= 1, overflowing products included, Next(n) is at least 0, at most the
\* configured max, and at most Next(n+1).
C28_CappedAndMonotone ==
    (NextReturned /\ calc.in.b.kind \in {"Exponential", "Fibonacci", "Linear"}) =>
        /\ ~Negative(calc.out)
        /\ ~Less(Ms(calc.in.b.max), calc.out)
        /\ ~Less(BackoffNext64(calc.in.b, calc.in.attempt + 1), calc.out)

\* The delays the README gives after each strategy, first retry first.
ReadmeDelays(bo) ==
    CASE bo = Exponential(100) -> <<100, 200, 400>>
      [] bo = Linear(100, 50) -> <<100, 150, 200>>
      [] bo = Fibonacci(50) -> <<50, 50, 100>>

\* C29: in a run, the wait before the 1st, 2nd and 3rd retry lasts what the
\* README documents: 100, 200, 400 ms for Exponential(100ms), 100, 150, 200 ms
\* for Linear(100ms, 50ms) and 50, 50, 100 ms for Fibonacci(50ms).
C29_ReadmeDelays ==
    \A i \in 1 .. Len(events) :
        LET e == events[i]
        IN  (e.type = "wait" /\ e.by = "timer" /\ e.attempt <= 3) =>
                e.delay = ReadmeDelays(config.backoff)[e.attempt]

(* ---------------------------- C31 .. C40 -------------------------------- *)
\* C31: whatever the loop body reports or leaves unreported, and whenever it
\* breaks or the context is cancelled, the Attempts handed over so far are
\* numbered 1, 2, ..., k without gap or repeat, none above maxAttempts, and the
\* event that ends the sequence (ceiling, rejection, cancellation, break) is the
\* last thing the iteration does.
C31_ContiguousNumbers ==
    /\ \A i \in 1 .. Len(Yields) : Yields[i].attempt = i /\ i <= b.maxAttempts
    /\ \A i \in 1 .. Len(events) : events[i].type \in {"end", "break"} => i = Len(events)
    /\ Done => (events # <<>> /\ LastEvent.type \in {"end", "break"})

\* A run cancelled during its second wait, after an unreported Attempt 1 and a
\* reported Attempt 2.
C31_Witness ==
    /\ Done
    /\ Len(Yields) = 2
    /\ LastEvent.type = "end" /\ LastEvent.by = "ctxwait"
    /\ \E i \in 1 .. Len(events) : events[i].type = "body" /\ events[i].by = ""
    /\ \E i \in 1 .. Len(events) : events[i].type = "body" /\ events[i].by = "reported"

\* The invocation events[i] failed with an accepted error before the last
\* allowed attempt.
FailedBeforeLast(i) ==
    /\ i >= 1
    /\ events[i].type = "op"
    /\ events[i].err # Nil
    /\ Matches(config.matcher, events[i].err)
    /\ events[i].attempt < config.maxAttempts

\* C32: the engine waits only between attempts.  Every wait, pending or over,
\* comes straight after an invocation numbered k < maxAttempts that failed with
\* an accepted error (so none before invocation 1, none after invocation
\* maxAttempts, none after a success or a rejected error), its timer is set to
\* backoff.Next(k), and a wait ended by its timer lasted at least that long.
C32_WaitsOnlyBetweenAttempts ==
    /\ pc = "wait" =>
          /\ FailedBeforeLast(Len(events))
          /\ LastEvent.attempt = attempt
          /\ timerAt - LastEvent.at = BackoffNext(config.backoff, attempt)
    /\ \A i \in 1 .. Len(events) :
          events[i].type = "wait" =>
              /\ FailedBeforeLast(i - 1)
              /\ events[i].attempt = events[i - 1].attempt
              /\ events[i].delay = BackoffNext(config.backoff, events[i].attempt)
              /\ events[i].by = "timer" => events[i].at - events[i - 1].at >= events[i].delay

\* The second wait of a run with Exponential(1ms) lasted Next(2) = 4 ms, and the
\* run went on to its third invocation.
C32_Witness ==
    /\ Done
    /\ config.backoff = Exponential(1)
    /\ NumOps = 3
    /\ \E i \in 1 .. Len(events) :
          /\ events[i].type = "wait"
          /\ events[i].by = "timer"
          /\ events[i].attempt = 2
          /\ events[i].delay = 4
          /\ events[i].at - events[i - 1].at = 4

\* events[i] closes a loop body that reported an error the matcher rejects.
ReportedRejected(i) ==
    /\ i >= 1
    /\ events[i].type = "body"
    /\ events[i].by = "reported"
    /\ events[i].err # Nil
    /\ ~Matches(b.matcher, events[i].err)

\* C33: the sequence ends only at the ceiling, on a break, after a reported
\* rejected error, or on a done context.  After a loop body that reported
\* nothing, nil or an accepted error and did not break, with the ceiling not
\* reached, the next thing the iteration does is to hand over Attempt N+1 or to
\* start the wait before it, unless the context is done; and that wait ends in
\* Attempt N+1 unless the context is done.
C33_OnlyFourWaysToStop ==
    /\ \A i \in 1 .. Len(events) :
          events[i].type = "end" =>
              /\ events[i].by \in {"ceiling", "rejected", "ctx", "ctxwait"}
              /\ events[i].by = "ceiling" => events[i].attempt > b.maxAttempts
              /\ events[i].by = "rejected" => ReportedRejected(i - 1)
              /\ events[i].by \in {"ctx", "ctxwait"} => CtxDone
    /\ \A i \in 1 .. Len(events) - 1 :
          /\ (/\ events[i].type = "body"
              /\ ~ReportedRejected(i)
              /\ events[i].attempt < b.maxAttempts) =>
                 \/ /\ events[i + 1].type \in {"yield", "arm"}
                    /\ events[i + 1].attempt = events[i].attempt + 1
                 \/ events[i + 1].type = "end" /\ events[i + 1].by = "ctx"
          /\ events[i].type = "arm" =>
                 \/ /\ events[i + 1].type = "yield"
                    /\ events[i + 1].attempt = events[i].attempt
                 \/ events[i + 1].type = "end" /\ events[i + 1].by = "ctxwait"

\* Attempt 1 was reported as a success and Attempt 2 as an accepted error; the
\* loop body asked on both times, and Attempt 3 was handed over.
C33_Witness ==
    /\ Len(Yields) = 3
    /\ \E i, j \in 1 .. Len(events) :
          /\ events[i].type = "body" /\ events[i].attempt = 1
          /\ events[i].by = "reported" /\ events[i].err = Nil
          /\ events[j].type = "body" /\ events[j].attempt = 2
          /\ events[j].by = "reported" /\ events[j].err # Nil

\* The children of ms, first to last, up to and including the first one whose
\* value on err is `stop`; all of them when there is none.
UpToFirst(ms, err, stop) ==
    LET hits == {i \in 1 .. Len(ms) : Matches(ms[i], err) = stop}
        last == IF hits = {} THEN Len(ms) ELSE CHOOSE i \in hits : \A j \in hits : i <= j
    IN  [i \in 1 .. last |-> i]

\* C34: And calls its children from left to right up to the first one that
\* returns false and no child after it, Or up to the first one that returns
\* true; And returns true exactly when no child returned false, Or returns true
\* exactly when one returned true, so And() is true and Or() is false.
C34_ShortCircuit ==
    (calc.fn = "calls" /\ calc.done) =>
        LET ms == calc.in.m.args
            err == calc.in.err
        IN  /\ calc.in.m.kind = "And" =>
                  /\ calc.out.called = UpToFirst(ms, err, FALSE)
                  /\ calc.out.ret = (\A i \in 1 .. Len(ms) : Matches(ms[i], err))
            /\ calc.in.m.kind = "Or" =>
                  /\ calc.out.called = UpToFirst(ms, err, TRUE)
                  /\ calc.out.ret = (\E i \in 1 .. Len(ms) : Matches(ms[i], err))
            /\ calc.out.ret = Matches(calc.in.m, err)

\* And over three children stopped at its second child, which returned false.
C34_Witness ==
    /\ calc.fn = "calls" /\ calc.done
    /\ calc.in.m.kind = "And"
    /\ Len(calc.in.m.args) = 3
    /\ ~Matches(calc.in.m.args[3], calc.in.err)
    /\ calc.out = [ret |-> FALSE, called |-> <<1, 2>>]

\* How a finished run of execute ended: with nil after an invocation that
\* returned nil, with the error of the last invocation, which the matcher
\* rejects, returned as it is, or with a MaxAttemptsExceededError when neither
\* happened (the attempts are used up or the context is done).
EndedInOneWay ==
    \/ /\ result = ReturnNil
       /\ NumOps >= 1 /\ LastOpErr = Nil
    \/ /\ result = ReturnErr(LastOpErr)
       /\ NumOps >= 1 /\ LastOpErr # Nil /\ ~Matches(config.matcher, LastOpErr)
    \/ /\ result.kind = "MAEE"
       /\ NumOps >= 1 => (LastOpErr # Nil /\ Matches(config.matcher, LastOpErr))
       /\ NumOps >= config.maxAttempts \/ CtxDone

\* C35: every run of execute whose hooks and operation return and whose timers
\* fire eventually ends, in exactly one of the three ways: nil, the rejected
\* error itself, or MaxAttemptsExceededError.
C35_Terminates == <>(Done /\ EndedInOneWay)

\* A run that used all its attempts, waiting between them, and ended with
\* MaxAttemptsExceededError without the context being done.
C35_Witness ==
    /\ Done
    /\ EndedInOneWay
    /\ result.kind = "MAEE"
    /\ NumOps = MaxN
    /\ ~CtxDone
    /\ Len(OfType("wait")) = MaxN - 1

\* Run r has returned and made all its Add calls.
RunEnded(r) == runs[r].pc = "done" /\ runs[r].pending = <<>>

\* No run is in progress: each one has ended or has not started yet.
NoRunInProgress ==
    /\ runs # NoRuns
    /\ \A r \in Runs : RunEnded(r) \/ runs[r] = NewRun

\* C36: whenever no run that updates the collector is in progress,
\* SuccessCount + FailureCount = TotalAttempts; a run that has ended after
\* producing at least one Attempt added one to TotalAttempts and one to exactly
\* one of SuccessCount and FailureCount, and a run that ended without producing
\* any added nothing to the three.
C36_OutcomesAddUp ==
    NoRunInProgress =>
        /\ shared.SuccessCount + shared.FailureCount = shared.TotalAttempts
        /\ \A r \in Runs :
              RunEnded(r) =>
                  LET n == IF runs[r].operationStarted THEN 1 ELSE 0
                  IN  /\ runs[r].own.TotalAttempts = n
                      /\ runs[r].own.SuccessCount + runs[r].own.FailureCount = n
        /\ shared.TotalAttempts =
              Cardinality({r \in Runs : RunEnded(r) /\ runs[r].operationStarted})

\* One run ended without an Attempt (its context was done), another one after
\* an Attempt that was counted as a failure, and no other run is under way.
C36_Witness ==
    /\ NoRunInProgress
    /\ \E r1, r2 \in Runs :
          /\ RunEnded(r1) /\ ~runs[r1].operationStarted
          /\ RunEnded(r2) /\ runs[r2].operationStarted /\ runs[r2].own.FailureCount = 1
    /\ shared.TotalAttempts = 1
    /\ shared.FailureCount = 1

\* The waits of execute, and the Attempts after the first, each of which Seq
\* hands over after the delay it carries.
EngineWaits == OfType("wait")
LaterAttempts == SelectSeq(events, LAMBDA e : e.type = "yield" /\ e.attempt >= 2)

\* C37: with the same maxAttempts, backoff and matcher, the same outcomes of the
\* operation and no cancellation, the canonical loop over Seq (run the operation,
\* report it with Result, break on nil) invokes the operation as often as
\* execute did and waits the same delays in the same order, Next(k) after the
\* k-th failed attempt; a timer is started for each delay above 0.
C37_SurfacesAgree ==
    (Done /\ ~EnginePhase) =>
        /\ Len(Bodies) = NumOps
        /\ \A i \in 1 .. Len(Bodies) : Bodies[i].by = "reported" /\ Bodies[i].err = Ops[i].err
        /\ Len(LaterAttempts) = Len(EngineWaits)
        /\ \A k \in 1 .. Len(EngineWaits) :
              /\ EngineWaits[k].delay = BackoffNext(config.backoff, k)
              /\ LaterAttempts[k].delay = EngineWaits[k].delay
        /\ Len(OfType("arm")) = Len(SelectSeq(EngineWaits, LAMBDA e : e.delay > 0))

\* Both surfaces made MaxN invocations that all failed, with two waits of 2 and
\* 3 ms (Fibonacci) between them.
C37_Witness ==
    /\ Done /\ ~EnginePhase
    /\ config.backoff = Fibonacci(1)
    /\ NumOps = MaxN
    /\ Len(Bodies) = MaxN
    /\ Len(OfType("arm")) = MaxN - 1
    /\ LaterAttempts[1].delay = 2

\* C38: a call of ShouldRetry changes nothing but what the caller learns: the
\* Attempt with its reported outcome, the position of the iteration, the
\* counters and the history stay as they are.  The reported outcome of the
\* Attempt in the loop body changes only by a call of Result, which sets it to
\* its argument whatever was reported before, or when Seq hands over the next
\* Attempt, on which nothing is reported yet.
C38_ShouldRetryIsPureQuery ==
    [][/\ query' # query =>
              UNCHANGED <<b, att, lastAttempt, operationStarted, metrics, cancelled,
                          deadline, now, pc, attempt, lastErr, timerAt, events>>
       /\ lastAttempt' # lastAttempt =>
              \/ /\ pc = "yielded" /\ pc' = "yielded"
                 /\ lastAttempt'.resultSet
                 /\ lastAttempt' = [lastAttempt EXCEPT !.result = lastAttempt'.result,
                                                       !.resultSet = TRUE]
                 /\ query' = query
              \/ /\ pc # "yielded" /\ pc' = "yielded"
                 /\ ~lastAttempt'.resultSet
                 /\ lastAttempt'.Number = attempt]_vars

\* The loop body of Attempt 1 asked about a rejected error without reporting
\* anything and was told not to retry; Attempt 2 was handed over all the same,
\* and its loop body then reported an outcome.
C38_Witness ==
    /\ query.asked
    /\ query.a.Number = 1
    /\ ~query.a.resultSet
    /\ query.err # Nil
    /\ ~query.ret
    /\ Len(Yields) = 2
    /\ pc = "yielded"
    /\ lastAttempt.Number = 2
    /\ lastAttempt.resultSet
    /\ \E i \in 1 .. Len(events) :
          events[i].type = "body" /\ events[i].attempt = 1 /\ events[i].by = ""

\* C39: when Seq starts with a context that is already done, or with
\* maxAttempts <= 0, its first step ends the iteration: no Attempt is handed
\* over, no timer is started, and TotalAttempts, SuccessCount, FailureCount and
\* TotalRetries stay as they were.
C39_NothingWithoutAFirstAttempt ==
    [][(/\ pc = "loop"
        /\ attempt = 1
        /\ (CtxDone \/ b.maxAttempts <= 0)
        /\ pc' # "loop") =>
           /\ pc' = "done"
           /\ metrics' = metrics
           /\ metrics' = NewMetricsCollector
           /\ lastAttempt' = NoAttempt
           /\ ~operationStarted'
           /\ timerAt' = timerAt
           /\ Len(events') = 1
           /\ events'[1].type = "end"]_vars

\* Seq of a builder with a collector and a ceiling of MaxN was started under a
\* cancelled context and has returned.
C39_Witness ==
    /\ pc = "done"
    /\ cancelled
    /\ b.hasMetrics
    /\ b.maxAttempts = MaxN
    /\ events = <<Event("end", 1, 0, Nil, 0, "ctx", TRUE)>>
    /\ metrics = NewMetricsCollector

\* C40: a run of execute with a resolved maxAttempts <= 0 calls no hook and
\* makes no invocation, and returns a MaxAttemptsExceededError that carries the
\* configured maxAttempts and no last error; and a run of any configuration that
\* returned nil made an invocation, the last of which returned nil.
C40_NoAttemptsAllowed ==
    /\ (Done /\ config.maxAttempts <= 0) =>
           /\ NumOps = 0
           /\ Hooks = <<>>
           /\ events = <<>>
           /\ result = MaxAttemptsExceededError(config.maxAttempts, Nil)
    /\ result = ReturnNil => (NumOps >= 1 /\ LastOpErr = Nil)

\* Do(op).WithMaxAttempts(-1) with MaxHooks hooks has returned; the error says
\* -1 attempts.
C40_Witness ==
    /\ Done
    /\ config.maxAttempts = -1
    /\ nHooks = MaxHooks
    /\ result = MaxAttemptsExceededError(-1, Nil)
    /\ NumOps = 0
====
